---- MODULE Spec2Model ----
(***************************************************************************)
(* Healthcare provider fraud: the batch pipeline (scripts/run_pipeline.py) *)
(* and the table transformations it is built from (src/data, src/features, *)
(* src/models, src/utils).                                                 *)
(*                                                                         *)
(* A data frame is a record [columns, rows]: the set of its column names   *)
(* and the sequence of its rows, each row a function from the column names *)
(* to cells.  A cell is <<>> when the value is missing (NaN, NaT, None)    *)
(* and <<v>> otherwise.  A datetime is a number of ticks, TicksPerDay of   *)
(* them in a day; a timedelta is a difference of two datetimes.            *)
(***************************************************************************)
EXTENDS Integers, Sequences, FiniteSets, TLC

\* ------------------------------------------------------------------------
\* Bounds of the model
\* ------------------------------------------------------------------------
MaxRawRows == 2
TicksPerDay == 2

\* ------------------------------------------------------------------------
\* Cells, columns, frames
\* ------------------------------------------------------------------------
NA == <<>>

isnull(c) == c = NA

notna(c) == c # NA

Range(s) == {s[i] : i \in DOMAIN s}

Frame(cols, rws) == [columns |-> cols, rows |-> rws]

Column(df, col) == [i \in 1..Len(df.rows) |-> df.rows[i][col]]

\* Series.nunique(): the number of distinct non-missing values
nunique(s) == Cardinality(Range(s) \ {NA})

\* Series.count(): the number of non-missing values
count(s) == Cardinality({i \in DOMAIN s : notna(s[i])})

\* DataFrame.drop(columns) / selecting a subset of the columns
Restrict(df, cols) ==
    Frame(cols, [i \in 1..Len(df.rows) |-> [c \in cols |-> df.rows[i][c]]])

\* df[col] = value computed per row; adds the column when it is new
Assign(df, col, f(_)) ==
    Frame(df.columns \cup {col},
          [i \in 1..Len(df.rows) |->
              [c \in df.columns \cup {col} |->
                  IF c = col THEN f(df.rows[i]) ELSE df.rows[i][c]]])

\* ------------------------------------------------------------------------
\* src/utils/validate_data.py
\* ------------------------------------------------------------------------
InpatientRequired ==
    << "BeneID", "ClaimID", "ClaimStartDt", "ClaimEndDt", "Provider",
       "InscClaimAmtReimbursed", "AttendingPhysician", "OperatingPhysician",
       "OtherPhysician", "AdmissionDt", "ClmAdmitDiagnosisCode",
       "DeductibleAmtPaid", "DischargeDt", "DiagnosisGroupCode",
       "ClmDiagnosisCode_1", "ClmDiagnosisCode_2", "ClmDiagnosisCode_3",
       "ClmDiagnosisCode_4", "ClmDiagnosisCode_5", "ClmDiagnosisCode_6",
       "ClmDiagnosisCode_7", "ClmDiagnosisCode_8", "ClmDiagnosisCode_9",
       "ClmDiagnosisCode_10", "ClmProcedureCode_1", "ClmProcedureCode_2",
       "ClmProcedureCode_3", "ClmProcedureCode_4", "ClmProcedureCode_5",
       "ClmProcedureCode_6" >>

InpatientNotNull ==
    << "ClaimID", "BeneID", "Provider", "ClaimStartDt", "ClaimEndDt",
       "AdmissionDt", "DischargeDt" >>

OutpatientRequired ==
    << "BeneID", "ClaimID", "ClaimStartDt", "ClaimEndDt", "Provider",
       "InscClaimAmtReimbursed", "AttendingPhysician", "OperatingPhysician",
       "OtherPhysician", "ClmDiagnosisCode_1", "ClmDiagnosisCode_2",
       "ClmDiagnosisCode_3", "ClmDiagnosisCode_4", "ClmDiagnosisCode_5",
       "ClmDiagnosisCode_6", "ClmDiagnosisCode_7", "ClmDiagnosisCode_8",
       "ClmDiagnosisCode_9", "ClmDiagnosisCode_10", "ClmProcedureCode_1",
       "ClmProcedureCode_2", "ClmProcedureCode_3", "ClmProcedureCode_4",
       "ClmProcedureCode_5", "ClmProcedureCode_6", "DeductibleAmtPaid",
       "ClmAdmitDiagnosisCode" >>

OutpatientNotNull ==
    << "ClaimID", "BeneID", "Provider", "ClaimStartDt", "ClaimEndDt" >>

BeneficiaryRequired ==
    << "BeneID", "DOB", "DOD", "Gender", "Race", "RenalDiseaseIndicator",
       "State", "County", "ChronicCond_Alzheimer", "ChronicCond_Heartfailure",
       "ChronicCond_KidneyDisease", "ChronicCond_Cancer",
       "ChronicCond_ObstrPulmonary", "ChronicCond_Depression",
       "ChronicCond_Diabetes", "ChronicCond_IschemicHeart",
       "ChronicCond_Osteoporasis", "ChronicCond_rheumatoidarthritis",
       "ChronicCond_stroke", "IPAnnualReimbursementAmt",
       "IPAnnualDeductibleAmt", "OPAnnualReimbursementAmt",
       "OPAnnualDeductibleAmt" >>

BeneficiaryNotNull == << "BeneID", "DOB", "Gender", "Race" >>

\* one entry of a validator's results list (the message text is left out:
\* it repeats test, column and the counts)
Check(test, column, success) ==
    [test |-> test, column |-> column, success |-> success]

column_exists(df, required) ==
    [i \in 1..Len(required) |->
        Check("column_exists", required[i], required[i] \in df.columns)]

unique_values(df, col) ==
    IF col \in df.columns
    THEN << Check("unique_values", col, nunique(Column(df, col)) = Len(df.rows)) >>
    ELSE << >>

not_null(df, cols) ==
    LET present == SelectSeq(cols, LAMBDA c : c \in df.columns)
    IN [i \in 1..Len(present) |->
           Check("not_null", present[i],
                 count(Column(df, present[i])) = Len(df.rows))]

positive_value(df, col) ==
    IF col \in df.columns
    THEN << Check("positive_value", col,
                  \A i \in 1..Len(df.rows) :
                      ~(notna(df.rows[i][col]) /\ df.rows[i][col][1] < 0)) >>
    ELSE << >>

valid_values(df, col, allowed) ==
    IF col \in df.columns
    THEN << Check("valid_values", col,
                  \A i \in 1..Len(df.rows) : df.rows[i][col] \in allowed) >>
    ELSE << >>

row_count(df) == << Check("row_count", "None", Len(df.rows) > 0) >>

\* The report, or the ValueError raised when raise_on_fail is set and a
\* check failed.
_build_report_first_failure(dataset_name, df, results, raise_on_fail) ==
    LET all_success == \A i \in DOMAIN results : results[i].success
        failed == SelectSeq(results, LAMBDA r : ~r.success)
        report == [kind |-> "report",
                   dataset |-> dataset_name,
                   success |-> all_success,
                   total_checks |-> Len(results),
                   passed |-> Len(SelectSeq(results, LAMBDA r : r.success)),
                   failed |-> Len(failed),
                   failed_tests |-> failed,
                   row_count |-> Len(df.rows),
                   column_count |-> Cardinality(df.columns)]
    IN IF ~all_success /\ raise_on_fail
       THEN [kind |-> "ValueError",
             dataset |-> dataset_name,
             failed_msgs |-> << << failed[1].test, failed[1].column >> >>]
       ELSE report

_build_report(dataset_name, df, results, raise_on_fail) ==
    LET all_success == \A i \in DOMAIN results : results[i].success
        failed == SelectSeq(results, LAMBDA r : ~r.success)
        report == [kind |-> "report",
                   dataset |-> dataset_name,
                   success |-> all_success,
                   total_checks |-> Len(results),
                   passed |-> Len(SelectSeq(results, LAMBDA r : r.success)),
                   failed |-> Len(failed),
                   failed_tests |-> failed,
                   row_count |-> Len(df.rows),
                   column_count |-> Cardinality(df.columns)]
    IN IF ~all_success /\ raise_on_fail
       THEN [kind |-> "ValueError",
             dataset |-> dataset_name,
             failed_msgs |-> [i \in 1..Len(failed) |->
                                 << failed[i].test, failed[i].column >>]]
       ELSE report

validate_inpatient_data(df, raise_on_fail) ==
    _build_report("inpatient", df,
        column_exists(df, InpatientRequired)
        \o unique_values(df, "ClaimID")
        \o not_null(df, InpatientNotNull)
        \o positive_value(df, "InscClaimAmtReimbursed")
        \o row_count(df),
        raise_on_fail)

validate_outpatient_data(df, raise_on_fail) ==
    _build_report("outpatient", df,
        column_exists(df, OutpatientRequired)
        \o unique_values(df, "ClaimID")
        \o not_null(df, OutpatientNotNull)
        \o positive_value(df, "InscClaimAmtReimbursed")
        \o row_count(df),
        raise_on_fail)

validate_beneficiary_data(df, raise_on_fail) ==
    _build_report("beneficiary", df,
        column_exists(df, BeneficiaryRequired)
        \o unique_values(df, "BeneID")
        \o valid_values(df, "Gender", {<<1>>, <<2>>})
        \o valid_values(df, "Race", {<<1>>, <<2>>, <<3>>, <<4>>, <<5>>})
        \o valid_values(df, "RenalDiseaseIndicator",
                        {<<"'0'">>, <<"'Y'">>, <<"0">>, <<"1">>})
        \o not_null(df, BeneficiaryNotNull)
        \o row_count(df),
        raise_on_fail)

InferenceRequired ==
    << "count_unique_beneficiary",
       "count_unique_claims", "count_dead_beneficiary", "count_unique_states",
       "count_unique_counties", "mean_hospital_stay_days",
       "max_hospital_stay_days", "total_top_diagnosis_codes",
       "mean_total_diagnosis", "mean_total_procedures",
       "mean_number_of_physicians", "mean_difference_stay_vs_claim",
       "patients_under_top_attending_physician",
       "patients_under_top_operating_physician", "mean_claim_amount",
       "total_claim_amount", "std_claim_amount", "mean_age", "count_of_males",
       "count_of_females", "count_of_black_people", "count_of_white_people",
       "count_of_hispanic_people", "count_of_other_people", "count_alzheimer",
       "count_heartfailure", "count_kidneydisease", "count_cancer",
       "count_obstrpulmonary", "count_depression", "count_diabetes",
       "count_ischemicheart", "count_osteoporasis",
       "count_rheumatoidarthritis", "count_stroke", "count_renal_disease",
       "mean_annual_inpatient_reimbursement",
       "mean_annual_inpatient_deductible",
       "mean_annual_outpatient_reimbursement",
       "mean_annual_outpatient_deductible", "count_inpatient",
       "count_outpatient", "claims_per_bene" >>

\* feature_cols = [c for c in df.columns if c not in required_columns];
\* total_nulls = df[feature_cols].isnull().sum().sum()
no_nulls(df, required) ==
    LET feature_cols == df.columns \ Range(required)
    IN << Check("no_nulls", "features",
                \A i \in 1..Len(df.rows) : \A c \in feature_cols : notna(df.rows[i][c])) >>

\* len(df.columns) - 2 >= 40
feature_count(df) == << Check("feature_count", "None", Cardinality(df.columns) - 2 >= 40) >>

validate_inference_data(df, raise_on_fail) ==
    _build_report("inference_data", df,
        column_exists(df, InferenceRequired)
        \o no_nulls(df, InferenceRequired)
        \o row_count(df)
        \o feature_count(df),
        raise_on_fail)

\* an exception leaving a function: [raised |-> its type]
Raise(type) == [raised |-> type]

Raises(x) == "raised" \in DOMAIN x

\* ------------------------------------------------------------------------
\* src/data/preprocess_data.py
\* ------------------------------------------------------------------------
\* the columns whose name contains 'ChronicCond_'
ChronicCondColumns ==
    { "ChronicCond_Alzheimer", "ChronicCond_Heartfailure",
      "ChronicCond_KidneyDisease", "ChronicCond_Cancer",
      "ChronicCond_ObstrPulmonary", "ChronicCond_Depression",
      "ChronicCond_Diabetes", "ChronicCond_IschemicHeart",
      "ChronicCond_Osteoporasis", "ChronicCond_rheumatoidarthritis",
      "ChronicCond_stroke" }

\* .replace({1: 1, 2: 0}): a value that is no key is kept
ReplaceChronic(c) == IF c = <<2>> THEN <<0>> ELSE c

\* .map({'0': 0, 'Y': 1}): a value that is no key becomes NaN.  The cell
\* holds the Python literal: "'0'" and "'Y'" are strings, "0" and "1" ints.
MapRenal(c) ==
    IF c = <<"'0'">> THEN <<"0">>
    ELSE IF c = <<"'Y'">> THEN <<"1">>
    ELSE NA

\* .map({1: 'Male', 2: 'Female'})
MapGender(c) ==
    IF c = <<1>> THEN <<"Male">>
    ELSE IF c = <<2>> THEN <<"Female">>
    ELSE NA

\* .map({1: 'White', 2: 'Black', 3: 'Other', 4: 'Unknown', 5: 'Hispanic'})
MapRace(c) ==
    IF c = <<1>> THEN <<"White">>
    ELSE IF c = <<2>> THEN <<"Black">>
    ELSE IF c = <<3>> THEN <<"Other">>
    ELSE IF c = <<4>> THEN <<"Unknown">>
    ELSE IF c = <<5>> THEN <<"Hispanic">>
    ELSE NA

\* the column name get_dummies gives a category under a prefix
DummyName ==
    [Male |-> "Gender_Male", Female |-> "Gender_Female",
     White |-> "Race_White", Black |-> "Race_Black", Other |-> "Race_Other",
     Unknown |-> "Race_Unknown", Hispanic |-> "Race_Hispanic"]

\* pd.get_dummies(series, prefix): one indicator column per category that
\* OCCURS in the series (missing values are no category); the value is the
\* function row index -> column name -> 0/1
get_dummies(mapped) ==
    LET cats == {c[1] : c \in Range(mapped) \ {NA}}
    IN [columns |-> {DummyName[k] : k \in cats},
        rows |-> [i \in DOMAIN mapped |->
                     [d \in {DummyName[k] : k \in cats} |->
                         IF \E k \in cats : d = DummyName[k] /\ mapped[i] = <<k>>
                         THEN <<1>> ELSE <<0>>]]]

\* pd.concat([df, a, b], axis=1); a column of a or b whose name df already
\* has carries the same name twice in pandas: here the later one stands
concat_columns(df, a, b) ==
    LET cols == df.columns \cup a.columns \cup b.columns
    IN Frame(cols,
             [i \in 1..Len(df.rows) |->
                 [c \in cols |->
                     IF c \in b.columns THEN b.rows[i][c]
                     ELSE IF c \in a.columns THEN a.rows[i][c]
                     ELSE df.rows[i][c]]])

process_beneficiary_data(df) ==
    IF ~({"RenalDiseaseIndicator", "Gender", "Race"} \subseteq df.columns)
    THEN Raise("KeyError")
    ELSE
    LET recoded ==
            Frame(df.columns,
                  [i \in 1..Len(df.rows) |->
                      [c \in df.columns |->
                          IF c \in ChronicCondColumns
                          THEN ReplaceChronic(df.rows[i][c])
                          ELSE IF c = "RenalDiseaseIndicator"
                          THEN MapRenal(df.rows[i][c])
                          ELSE df.rows[i][c]]])
        gender == get_dummies([i \in 1..Len(df.rows) |-> MapGender(df.rows[i]["Gender"])])
        race == get_dummies([i \in 1..Len(df.rows) |-> MapRace(df.rows[i]["Race"])])
    IN concat_columns(recoded, gender, race)

\* pd.to_datetime of a column of strings.  The strings that denote a date,
\* each with the instant it denotes in ticks since 2009-01-01 00:00.  Any
\* other string is not a date and makes to_datetime raise.
DateTicks ==
    ("2009-01-01" :> 0) @@ ("2009-01-01 12:00" :> TicksPerDay \div 2)
    @@ ("2009-01-02" :> TicksPerDay) @@ ("2009-01-02 12:00" :> TicksPerDay + TicksPerDay \div 2)
    @@ ("2009-01-03" :> 2 * TicksPerDay)
    @@ ("1940-01-01" :> (0 - 25203) * TicksPerDay)

Parsable(c) == isnull(c) \/ c[1] \in DOMAIN DateTicks

to_datetime(c) == IF isnull(c) THEN NA ELSE << DateTicks[c[1]] >>

ClaimDateColumns == << "ClaimStartDt", "ClaimEndDt", "AdmissionDt", "DischargeDt" >>

concat_rows_fill_false(a, b) ==
    LET cols == a.columns \cup b.columns
        widen(df, r) == [c \in cols |->
                            IF c \in df.columns THEN r[c]
                            ELSE IF c \in {"Is_Inpatient", "Is_Outpatient"} THEN << FALSE >>
                            ELSE NA]
    IN Frame(cols,
             [i \in 1..Len(a.rows) |-> widen(a, a.rows[i])]
             \o [i \in 1..Len(b.rows) |-> widen(b, b.rows[i])])

\* pd.concat([in_df, out_df]): the rows of both, over the union of the
\* columns; a column a frame does not have is missing in its rows
concat_rows(a, b) ==
    LET cols == a.columns \cup b.columns
        widen(df, r) == [c \in cols |-> IF c \in df.columns THEN r[c] ELSE NA]
    IN Frame(cols,
             [i \in 1..Len(a.rows) |-> widen(a, a.rows[i])]
             \o [i \in 1..Len(b.rows) |-> widen(b, b.rows[i])])

\* in_df['Is_Inpatient'] = True, done on the caller's frame
TagInpatient(in_df) == Assign(in_df, "Is_Inpatient", LAMBDA r : <<TRUE>>)

\* out_df['Is_Outpatient'] = True, done on the caller's frame
TagOutpatient(out_df) == Assign(out_df, "Is_Outpatient", LAMBDA r : <<TRUE>>)

process_claims_data(in_df, out_df) ==
    LET df == concat_rows(TagInpatient(in_df), TagOutpatient(out_df))
    IN IF ~(Range(ClaimDateColumns) \subseteq df.columns) THEN Raise("KeyError")
       ELSE IF \E i \in 1..Len(df.rows) : \E c \in Range(ClaimDateColumns) :
                   ~Parsable(df.rows[i][c])
       THEN Raise("ValueError")
       ELSE Frame(df.columns,
                  [i \in 1..Len(df.rows) |->
                      [c \in df.columns |->
                          IF c \in Range(ClaimDateColumns)
                          THEN to_datetime(df.rows[i][c])
                          ELSE df.rows[i][c]]])

\* ------------------------------------------------------------------------
\* src/features/build_features.py
\* ------------------------------------------------------------------------
TopN == 20

Min(a, b) == IF a <= b THEN a ELSE b

\* for each non-missing value of keycol, the number of rows holding it whose
\* countcol is not missing
GroupCount(df, keycol, countcol) ==
    [k \in Range(Column(df, keycol)) \ {NA} |->
        Cardinality({i \in 1..Len(df.rows) :
                        df.rows[i][keycol] = k /\ notna(df.rows[i][countcol])})]

\* the orders sort_values(ascending=False) / value_counts() may leave the
\* keys in: the counts do not increase; which of two keys with equal counts
\* comes first is not fixed by the sort
RECURSIVE RankedFrom(_, _)
RankedFrom(cnt, keys) ==
    IF keys = {} THEN { << >> }
    ELSE LET first == { k \in keys : \A other \in keys : cnt[k] >= cnt[other] }
         IN UNION { { << k >> \o rest : rest \in RankedFrom(cnt, keys \ {k}) } : k \in first }

RankedOrders(cnt) == RankedFrom(cnt, DOMAIN cnt)

head_whole(s, n) == s

head(s, n) == SubSeq(s, 1, Min(n, Len(s)))

TopCodeColumns == { "ClmAdmitDiagnosisCode", "ClaimID", "AttendingPhysician", "OperatingPhysician" }

\* the contents generate_top_codes may write to its three files
TopCodeFiles(df) ==
    { [top_diagnosis_code |-> head(d, TopN),
       top_attending_physician |-> head(a, TopN),
       top_operating_physician |-> head(o, TopN)] :
        d \in RankedOrders(GroupCount(df, "ClmAdmitDiagnosisCode", "ClaimID")),
        a \in RankedOrders(GroupCount(df, "AttendingPhysician", "AttendingPhysician")),
        o \in RankedOrders(GroupCount(df, "OperatingPhysician", "OperatingPhysician")) }

\* a timedelta: missing when either datetime is
Minus(a, b) == IF isnull(a) \/ isnull(b) THEN NA ELSE << a[1] - b[1] >>

\* .dt.days: the whole days of a timedelta, rounded down (a timedelta of
\* minus half a day has -1 days); missing for a missing timedelta
dt_days_truncating(d) ==
    IF isnull(d) THEN NA
    ELSE IF d[1] >= 0 THEN << d[1] \div TicksPerDay >>
    ELSE << 0 - ((0 - d[1]) \div TicksPerDay) >>

dt_days(d) == IF isnull(d) THEN NA ELSE << d[1] \div TicksPerDay >>

\* series < 0 and series > 0: a comparison with a missing value is False
LessThanZero(x) == IF isnull(x) THEN <<FALSE>> ELSE << x[1] < 0 >>

GreaterThanZero(x) == IF isnull(x) THEN <<FALSE>> ELSE << x[1] > 0 >>

\* series + 1 and series - series: missing when an operand is
PlusOne(x) == IF isnull(x) THEN NA ELSE << x[1] + 1 >>

\* np.where(series.isin(values), 1, 0)
IsInFlag(c, values) == IF notna(c) /\ c \in Range(values) THEN <<1>> ELSE <<0>>

\* df.filter(like=...): the columns whose name contains the text
DiagnosisCodeColumns ==
    { "ClmDiagnosisCode_1", "ClmDiagnosisCode_2", "ClmDiagnosisCode_3",
      "ClmDiagnosisCode_4", "ClmDiagnosisCode_5", "ClmDiagnosisCode_6",
      "ClmDiagnosisCode_7", "ClmDiagnosisCode_8", "ClmDiagnosisCode_9",
      "ClmDiagnosisCode_10" }

ProcedureCodeColumns ==
    { "ClmProcedureCode_1", "ClmProcedureCode_2", "ClmProcedureCode_3",
      "ClmProcedureCode_4", "ClmProcedureCode_5", "ClmProcedureCode_6" }

PhysicianColumns == { "AttendingPhysician", "OperatingPhysician", "OtherPhysician" }

\* .notna().sum(axis=1) over the columns of the frame among cols
NotNaCount(df, r, cols) == << Cardinality({c \in cols \cap df.columns : notna(r[c])}) >>

ClaimFeatureInputs ==
    { "ClaimStartDt", "ClaimEndDt", "AdmissionDt", "DischargeDt",
      "ClmAdmitDiagnosisCode", "AttendingPhysician", "OperatingPhysician" }

ClaimFeatureRow(df, r, top_diagnosis_code, top_attending_physician, top_operating_physician) ==
    LET hospital_stay_days == PlusOne(dt_days(Minus(r["DischargeDt"], r["AdmissionDt"])))
        claim_duration_days == PlusOne(dt_days(Minus(r["ClaimEndDt"], r["ClaimStartDt"])))
        new ==
          [billing_before_admission |->
               LessThanZero(dt_days(Minus(r["ClaimStartDt"], r["AdmissionDt"]))),
           billing_after_discharge |->
               GreaterThanZero(dt_days(Minus(r["ClaimEndDt"], r["DischargeDt"]))),
           top_diagnosis_code |-> IsInFlag(r["ClmAdmitDiagnosisCode"], top_diagnosis_code),
           hospital_stay_days |-> hospital_stay_days,
           num_diagnoses |-> NotNaCount(df, r, DiagnosisCodeColumns),
           num_procedures |-> NotNaCount(df, r, ProcedureCodeColumns),
           claim_duration_days |-> claim_duration_days,
           num_of_physicians |-> NotNaCount(df, r, PhysicianColumns),
           is_top20_attending |-> IsInFlag(r["AttendingPhysician"], top_attending_physician),
           is_top20_operating |-> IsInFlag(r["OperatingPhysician"], top_operating_physician),
           stay_vs_claim_diff |-> Minus(hospital_stay_days, claim_duration_days)]
    IN [c \in df.columns \cup DOMAIN new |-> IF c \in DOMAIN new THEN new[c] ELSE r[c]]

create_claims_features(df, top_diagnosis_code, top_attending_physician, top_operating_physician) ==
    IF ~(ClaimFeatureInputs \subseteq df.columns) THEN Raise("KeyError")
    ELSE Frame(df.columns \cup
                 { "billing_before_admission", "billing_after_discharge",
                   "top_diagnosis_code", "hospital_stay_days", "num_diagnoses",
                   "num_procedures", "claim_duration_days", "num_of_physicians",
                   "is_top20_attending", "is_top20_operating", "stay_vs_claim_diff" },
               [i \in 1..Len(df.rows) |->
                   ClaimFeatureRow(df, df.rows[i], top_diagnosis_code,
                                   top_attending_physician, top_operating_physician)])

\* Series.astype(int) of days / 365.25: the quotient cut towards zero
AgeYears(days) ==
    IF days >= 0 THEN (days * 100) \div 36525
    ELSE 0 - (((0 - days) * 100) \div 36525)

RECURSIVE Flatten(_)
Flatten(ss) == IF ss = << >> THEN << >> ELSE Head(ss) \o Flatten(Tail(ss))

\* left.merge(right, on=key, how='left'): every left row, in order, once
\* per right row with the same key (two missing keys are the same key), or
\* once with the right columns missing when no right row has its key
merge_left(left, right, key) ==
    LET cols == left.columns \cup right.columns
        joined(l, r) == [c \in cols |-> IF c \in left.columns THEN l[c] ELSE r[c]]
        alone(l) == [c \in cols |-> IF c \in left.columns THEN l[c] ELSE NA]
        matches(l) == SelectSeq(right.rows, LAMBDA r : r[key] = l[key])
    IN Frame(cols,
             Flatten([i \in 1..Len(left.rows) |->
                         IF matches(left.rows[i]) = << >>
                         THEN << alone(left.rows[i]) >>
                         ELSE [j \in 1..Len(matches(left.rows[i])) |->
                                  joined(left.rows[i], matches(left.rows[i])[j])]]))

merge_beneficiary_and_claims(beneficiary_df, claims_df) ==
    IF "BeneID" \notin beneficiary_df.columns \/ "BeneID" \notin claims_df.columns
    THEN Raise("KeyError")
    ELSE
    LET df == merge_left(claims_df, beneficiary_df, "BeneID")
    IN IF ~({"DOB", "DOD", "ClaimStartDt"} \subseteq df.columns) THEN Raise("KeyError")
       ELSE IF \E i \in 1..Len(df.rows) : ~Parsable(df.rows[i]["DOB"])
       THEN Raise("ValueError")
       \* .astype(int) of a column holding a missing value
       ELSE IF \E i \in 1..Len(df.rows) :
                   isnull(df.rows[i]["DOB"]) \/ isnull(df.rows[i]["ClaimStartDt"])
       THEN Raise("ValueError")
       ELSE Frame(df.columns \cup {"Age_at_Claim", "Is_Dead"},
                  [i \in 1..Len(df.rows) |->
                      [c \in df.columns \cup {"Age_at_Claim", "Is_Dead"} |->
                          CASE c = "DOB" -> to_datetime(df.rows[i]["DOB"])
                            [] c = "Age_at_Claim" ->
                                 << AgeYears(dt_days(Minus(df.rows[i]["ClaimStartDt"],
                                                           to_datetime(df.rows[i]["DOB"])))[1]) >>
                            [] c = "Is_Dead" -> << notna(df.rows[i]["DOD"]) >>
                            [] OTHER -> df.rows[i][c]]])

\* a float that is a quotient of integers; den = 0 is +inf
Frac(n, d) == [num |-> n, den |-> d]

\* the named aggregations of the groupby: output column, input column,
\* function
AggSpec ==
    << << "count_unique_beneficiary", "BeneID", "nunique" >>,
       << "count_unique_claims", "ClaimID", "count" >>,
       << "count_dead_beneficiary", "Is_Dead", "sum" >>,
       << "count_unique_states", "State", "nunique" >>,
       << "count_unique_counties", "County", "nunique" >>,
       << "mean_hospital_stay_days", "hospital_stay_days", "mean" >>,
       << "max_hospital_stay_days", "hospital_stay_days", "max" >>,
       << "total_top_diagnosis_codes", "top_diagnosis_code", "sum" >>,
       << "mean_total_diagnosis", "num_diagnoses", "mean" >>,
       << "mean_total_procedures", "num_procedures", "mean" >>,
       << "mean_number_of_physicians", "num_of_physicians", "mean" >>,
       << "mean_difference_stay_vs_claim", "stay_vs_claim_diff", "mean" >>,
       << "patients_under_top_attending_physician", "is_top20_attending", "sum" >>,
       << "patients_under_top_operating_physician", "is_top20_operating", "sum" >>,
       << "mean_claim_amount", "InscClaimAmtReimbursed", "mean" >>,
       << "total_claim_amount", "InscClaimAmtReimbursed", "sum" >>,
       << "std_claim_amount", "InscClaimAmtReimbursed", "std" >>,
       << "mean_age", "Age_at_Claim", "mean" >>,
       << "count_of_males", "Gender_Male", "sum" >>,
       << "count_of_females", "Gender_Female", "sum" >>,
       << "count_of_black_people", "Race_Black", "sum" >>,
       << "count_of_white_people", "Race_White", "sum" >>,
       << "count_of_hispanic_people", "Race_Hispanic", "sum" >>,
       << "count_of_other_people", "Race_Other", "sum" >>,
       << "count_alzheimer", "ChronicCond_Alzheimer", "sum" >>,
       << "count_heartfailure", "ChronicCond_Heartfailure", "sum" >>,
       << "count_kidneydisease", "ChronicCond_KidneyDisease", "sum" >>,
       << "count_cancer", "ChronicCond_Cancer", "sum" >>,
       << "count_obstrpulmonary", "ChronicCond_ObstrPulmonary", "sum" >>,
       << "count_depression", "ChronicCond_Depression", "sum" >>,
       << "count_diabetes", "ChronicCond_Diabetes", "sum" >>,
       << "count_ischemicheart", "ChronicCond_IschemicHeart", "sum" >>,
       << "count_osteoporasis", "ChronicCond_Osteoporasis", "sum" >>,
       << "count_rheumatoidarthritis", "ChronicCond_rheumatoidarthritis", "sum" >>,
       << "count_stroke", "ChronicCond_stroke", "sum" >>,
       << "count_renal_disease", "RenalDiseaseIndicator", "sum" >>,
       << "mean_annual_inpatient_reimbursement", "IPAnnualReimbursementAmt", "mean" >>,
       << "mean_annual_inpatient_deductible", "IPAnnualDeductibleAmt", "mean" >>,
       << "mean_annual_outpatient_reimbursement", "OPAnnualReimbursementAmt", "mean" >>,
       << "mean_annual_outpatient_deductible", "OPAnnualDeductibleAmt", "mean" >>,
       << "count_inpatient", "Is_Inpatient", "sum" >>,
       << "count_outpatient", "Is_Outpatient", "sum" >> >>

AggOutputs == {AggSpec[k][1] : k \in DOMAIN AggSpec}

AggInputs == {AggSpec[k][2] : k \in DOMAIN AggSpec}

\* the number a non-missing cell of the column counts as in sum, mean, max
\* and std: True is 1 and False is 0
BooleanColumns == { "Is_Dead", "Is_Inpatient", "Is_Outpatient" }

Number(col, c) ==
    IF col \in BooleanColumns THEN (IF c[1] THEN 1 ELSE 0)
    ELSE IF col = "RenalDiseaseIndicator" THEN (IF c = <<"1">> THEN 1 ELSE 0)
    ELSE c[1]

RECURSIVE SumSeq(_)
SumSeq(s) == IF s = << >> THEN 0 ELSE Head(s) + SumSeq(Tail(s))

\* the numbers of the non-missing cells of a group's column
Numbers(col, cells) ==
    LET present == SelectSeq(cells, notna)
    IN [i \in 1..Len(present) |-> Number(col, present[i])]

\* Series.std(): the sample standard deviation (n - 1 in the denominator),
\* missing for fewer than two values.  The cell holds its square, the
\* variance, as a quotient of integers.
StdPopulation(xs) ==
    IF Len(xs) < 2 THEN NA
    ELSE << Frac(Len(xs) * SumSeq([i \in DOMAIN xs |-> xs[i] * xs[i]])
                   - SumSeq(xs) * SumSeq(xs),
                 Len(xs) * Len(xs)) >>

Std(xs) ==
    IF Len(xs) < 2 THEN NA
    ELSE << Frac(Len(xs) * SumSeq([i \in DOMAIN xs |-> xs[i] * xs[i]])
                   - SumSeq(xs) * SumSeq(xs),
                 Len(xs) * (Len(xs) - 1)) >>

Aggregate(fn, col, cells) ==
    LET xs == Numbers(col, cells)
    IN CASE fn = "nunique" -> << nunique(cells) >>
         [] fn = "count" -> << count(cells) >>
         [] fn = "sum" -> << SumSeq(xs) >>
         [] fn = "mean" -> IF xs = << >> THEN NA ELSE << Frac(SumSeq(xs), Len(xs)) >>
         [] fn = "max" ->
              IF xs = << >> THEN NA
              ELSE << CHOOSE m \in Range(xs) : \A x \in Range(xs) : x <= m >>
         [] fn = "std" -> Std(xs)

\* int / int: a float; x / 0 is inf and 0 / 0 is NaN
TrueDivide(a, b) == IF a = 0 /\ b = 0 THEN NA ELSE << Frac(a, b) >>

\* the provider ids of the model in sorted order, the order groupby leaves
\* its groups in
ProviderIds == << "P1", "P2", "P3" >>

FillFlagsTrue(df) ==
    Frame(df.columns,
          [i \in 1..Len(df.rows) |->
              [c \in df.columns |->
                  IF isnull(df.rows[i][c]) /\ c \in {"hospital_stay_days", "stay_vs_claim_diff"}
                  THEN <<0>>
                  ELSE IF isnull(df.rows[i][c]) /\ c \in {"Is_Inpatient", "Is_Outpatient"}
                  THEN <<TRUE>>
                  ELSE df.rows[i][c]]])

FillFlagsOnly(df) ==
    Frame(df.columns,
          [i \in 1..Len(df.rows) |->
              [c \in df.columns |->
                  IF isnull(df.rows[i][c]) /\ c \in {"Is_Inpatient", "Is_Outpatient"}
                  THEN <<FALSE>>
                  ELSE df.rows[i][c]]])

\* fillna(0) of the two duration columns and fillna(False) of the two
\* source flags, done on the caller's frame
FillBeforeGrouping(df) ==
    Frame(df.columns,
          [i \in 1..Len(df.rows) |->
              [c \in df.columns |->
                  IF isnull(df.rows[i][c]) /\ c \in {"hospital_stay_days", "stay_vs_claim_diff"}
                  THEN <<0>>
                  ELSE IF isnull(df.rows[i][c]) /\ c \in {"Is_Inpatient", "Is_Outpatient"}
                  THEN <<FALSE>>
                  ELSE df.rows[i][c]]])

aggregate_claims_features(df) ==
    IF ~(AggInputs \cup {"Provider"} \subseteq df.columns) THEN Raise("KeyError")
    ELSE
    LET filled == FillBeforeGrouping(df)
        \* groupby drops the rows whose key is missing
        keys == SelectSeq(ProviderIds, LAMBDA p : <<p>> \in Range(Column(filled, "Provider")))
        group(p) == SelectSeq(filled.rows, LAMBDA r : r["Provider"] = <<p>>)
        agg(p, k) == Aggregate(AggSpec[k][3], AggSpec[k][2],
                               [i \in 1..Len(group(p)) |-> group(p)[i][AggSpec[k][2]]])
        row(p) ==
            LET a == [o \in AggOutputs |->
                         agg(p, CHOOSE k \in DOMAIN AggSpec : AggSpec[k][1] = o)]
            IN [c \in AggOutputs \cup {"Provider", "claims_per_bene"} |->
                   CASE c = "Provider" -> <<p>>
                     [] c = "claims_per_bene" ->
                          TrueDivide(a["count_unique_claims"][1], a["count_unique_beneficiary"][1])
                     [] OTHER -> a[c]]
    IN Frame(AggOutputs \cup {"Provider", "claims_per_bene"},
             [i \in 1..Len(keys) |-> row(keys[i])])

\* .map({"No": 0, "Yes": 1})
MapPotentialFraud(c) ==
    IF c = <<"No">> THEN <<0>> ELSE IF c = <<"Yes">> THEN <<1>> ELSE NA

FillZeroSkipped(c) == c

\* fillna(0) of a float column
FillZero(c) == IF isnull(c) THEN << Frac(0, 1) >> ELSE c

merge_provider_train(features, provider) ==
    IF "Provider" \notin features.columns \/ "Provider" \notin provider.columns
    THEN Raise("KeyError")
    ELSE
    LET df == merge_left(provider, features, "Provider")
    IN IF ~({"std_claim_amount", "PotentialFraud"} \subseteq df.columns) THEN Raise("KeyError")
       ELSE Frame(df.columns,
                  [i \in 1..Len(df.rows) |->
                      [c \in df.columns |->
                          CASE c = "std_claim_amount" -> FillZero(df.rows[i][c])
                            [] c = "PotentialFraud" -> MapPotentialFraud(df.rows[i][c])
                            [] OTHER -> df.rows[i][c]]])

\* what generate_top_codes hands its caller: the function has no return
\* statement
generate_top_codes_return == "None"

\* ------------------------------------------------------------------------
\* src/models/tune.py, src/models/train.py
\* ------------------------------------------------------------------------
\* a 0/1 label column, held as the number of its rows equal to 0 and to 1
Labels(zeros, ones) == [zeros |-> zeros, ones |-> ones]

Returns(v) == [value |-> v]

\* StratifiedKFold(n_splits=5, ...)
n_splits == 5

\* how a stratified split shares n_draws rows between the two classes: in
\* proportion to the class sizes, the row left over going to the class with
\* the larger remainder, to either class when the remainders are equal
approximate_mode(y, n_draws) ==
    LET n == y.zeros + y.ones
        floor0 == (y.zeros * n_draws) \div n
        floor1 == (y.ones * n_draws) \div n
        rem0 == (y.zeros * n_draws) % n
        rem1 == (y.ones * n_draws) % n
    IN IF floor0 + floor1 = n_draws
       THEN { Labels(floor0, floor1) }
       ELSE (IF rem0 >= rem1 THEN { Labels(floor0 + 1, floor1) } ELSE {}) \cup
            (IF rem1 >= rem0 THEN { Labels(floor0, floor1 + 1) } ELSE {})

\* train_test_split(X, y, test_size=0.33, random_state=42, stratify=y): the
\* labels of the training part, or the ValueError of a split that cannot be
\* stratified
train_test_split(y) ==
    LET n == y.zeros + y.ones
        n_test == (33 * n + 99) \div 100
        n_train == n - n_test
        classes == { c \in {y.zeros, y.ones} : c > 0 }
        n_classes == (IF y.zeros > 0 THEN 1 ELSE 0) + (IF y.ones > 0 THEN 1 ELSE 0)
    IN IF n_train = 0 THEN { Raise("ValueError") }
       ELSE IF \E c \in classes : c < 2 THEN { Raise("ValueError") }
       ELSE IF n_train < n_classes \/ n_test < n_classes THEN { Raise("ValueError") }
       ELSE approximate_mode(y, n_train)

\* round(num / den) for den > 0
round_down(num, den) == num \div den

round(num, den) ==
    LET q == num \div den
        r == num % den
    IN IF 2 * r > den \/ (2 * r = den /\ q % 2 = 1) THEN q + 1 ELSE q

\* round((y_train==0).sum()/(y_train==1).sum()): the quotient by zero is
\* infinite and round raises on it
scale_pos_weight(y_train) ==
    IF y_train.ones = 0 THEN Raise("OverflowError")
    ELSE Returns(round(y_train.zeros, y_train.ones))

\* the parameters a trial suggests: the lower ends of the nine ranges, or
\* the upper ends
SuggestedKeys ==
    { "n_estimators", "learning_rate", "max_depth", "subsample", "colsample_bytree",
      "min_child_weight", "gamma", "reg_alpha", "reg_lambda" }

SuggestedLow ==
    [k \in SuggestedKeys |->
        CASE k = "n_estimators" -> 100
          [] k = "learning_rate" -> Frac(1, 100)
          [] k = "max_depth" -> 3
          [] k = "subsample" -> Frac(1, 2)
          [] k = "colsample_bytree" -> Frac(1, 2)
          [] k = "min_child_weight" -> 1
          [] k = "gamma" -> Frac(0, 1)
          [] k = "reg_alpha" -> Frac(0, 1)
          [] k = "reg_lambda" -> Frac(0, 1)]

SuggestedHigh ==
    [k \in SuggestedKeys |->
        CASE k = "n_estimators" -> 600
          [] k = "learning_rate" -> Frac(1, 10)
          [] k = "max_depth" -> 7
          [] k = "subsample" -> Frac(9, 10)
          [] k = "colsample_bytree" -> Frac(9, 10)
          [] k = "min_child_weight" -> 10
          [] k = "gamma" -> Frac(1, 1)
          [] k = "reg_alpha" -> Frac(5, 1)
          [] k = "reg_lambda" -> Frac(5, 1)]

Suggested == { SuggestedLow, SuggestedHigh }

\* cv_scores.mean(), in hundredths; missing when a fold could not be scored
TrialValues == { <<50>>, <<90>>, NA }

\* the splitter of cross_val_score refuses a label column in which no class
\* has n_splits members
SplitterRaises(y_train) == y_train.zeros < n_splits /\ y_train.ones < n_splits

\* what the study records of a trial: a missing value is a failed trial
Trial(suggested, value) ==
    [params |-> suggested,
     state |-> IF isnull(value) THEN "FAIL" ELSE "COMPLETE",
     value |-> value]

\* study.best_params: the suggested parameters of a completed trial of the
\* highest value
best_params(study) ==
    LET completed == { i \in 1..Len(study) : study[i].state = "COMPLETE" }
    IN IF completed = {} THEN { Raise("ValueError") }
       ELSE { study[i].params :
                i \in { j \in completed :
                          \A k \in completed : study[k].value[1] <= study[j].value[1] } }

\* dict.update
update(d, e) == [k \in DOMAIN d \cup DOMAIN e |-> IF k \in DOMAIN e THEN e[k] ELSE d[k]]

\* best_params.update({...}) of tune_model
TunedParams(best, weight) ==
    update(best,
           [k \in {"random_state", "n_jobs", "scale_pos_weight", "eval_metric"} |->
               CASE k = "random_state" -> 42
                 [] k = "n_jobs" -> -1
                 [] k = "scale_pos_weight" -> weight
                 [] k = "eval_metric" -> "logloss"])

\* default_params of train_model
default_params(weight) ==
    [k \in {"objective", "eval_metric", "n_jobs", "random_state", "scale_pos_weight"} |->
        CASE k = "objective" -> "binary:logistic"
          [] k = "eval_metric" -> "auc"
          [] k = "n_jobs" -> -1
          [] k = "random_state" -> 42
          [] k = "scale_pos_weight" -> weight]

\* xgb_params: dict = None
NoParams == [none |-> TRUE]

ClassifierParamsAsSupplied(xgb_params, weight) ==
    IF xgb_params = NoParams THEN default_params(weight)
    ELSE update(default_params(weight), xgb_params)

\* the parameters train_model builds its classifier with
ClassifierParams(xgb_params, weight) ==
    IF xgb_params = NoParams THEN default_params(weight)
    ELSE update(update(default_params(weight), xgb_params),
                [k \in {"scale_pos_weight"} |-> weight])

\* train_model(df, target, xgb_params), with the label column of df: what
\* it may return, the pipeline held as the parameters of its classifier and
\* the labels it was fitted on, or raise; the classifier library may fail
\* the fit
train_model(labels, xgb_params) ==
    UNION { IF Raises(split) THEN { split }
            ELSE IF Raises(scale_pos_weight(split)) THEN { scale_pos_weight(split) }
            ELSE { Returns([params |-> ClassifierParams(xgb_params, scale_pos_weight(split).value),
                            fitted_on |-> split]),
                   Raise("XGBoostError") } :
            split \in train_test_split(labels) }

\* ------------------------------------------------------------------------
\* src/serving/inference.py and the POST /predict endpoint of src/app/main.py
\* ------------------------------------------------------------------------
\* the four locations _find_model looks at
docker_path == "/app/model/model.pkl"

exported_path == "src/serving/model/model.pkl"

artifacts_path == "artifacts/model.pkl"

mlflow_path == "src/serving/model/mlflow_model"

ModelLocations == { docker_path, exported_path, artifacts_path, mlflow_path }

\* the feature mappings a caller passes, by name
FeatureMappings == { "features_a", "features_b" }

\* what model.predict does with the one-row frame of a mapping: it returns
\* the array of one class label of the binary classifier, or it raises
ModelOutcomes == { Returns(<< 0 >>), Returns(<< 1 >>), Raise("ValueError") }

\* a stored model, by what its predict does with each mapping
Models == [FeatureMappings -> ModelOutcomes]

_find_model_artifacts_first(exists) ==
    IF docker_path \in exists THEN Returns(<< docker_path, "joblib" >>)
    ELSE IF artifacts_path \in exists THEN Returns(<< artifacts_path, "joblib" >>)
    ELSE IF exported_path \in exists THEN Returns(<< exported_path, "joblib" >>)
    ELSE IF mlflow_path \in exists THEN Returns(<< mlflow_path, "mlflow" >>)
    ELSE Raise("FileNotFoundError")

\* exists: the locations os.path.exists answers True for
_find_model(exists) ==
    IF docker_path \in exists THEN Returns(<< docker_path, "joblib" >>)
    ELSE IF exported_path \in exists THEN Returns(<< exported_path, "joblib" >>)
    ELSE IF artifacts_path \in exists THEN Returns(<< artifacts_path, "joblib" >>)
    ELSE IF mlflow_path \in exists THEN Returns(<< mlflow_path, "mlflow" >>)
    ELSE Raise("FileNotFoundError")

\* stored: the model kept at each location that exists. The model loaded
\* remembers the location and the type _find_model returned
_load_model(exists, stored) ==
    LET found == _find_model(exists)
    IN IF Raises(found) THEN found
       ELSE LET model_path == found.value[1]
                model_type == found.value[2]
            IN IF model_type \in { "joblib", "mlflow" }
               THEN Returns([model_path |-> model_path, model_type |-> model_type,
                             predict |-> stored[model_path]])
               ELSE Raise("ValueError")

Legitimate == "The healthcare provider is legitimate"

Fraudulent == "The healthcare provider is fraudulent"

\* int() of a numpy integer: the Python integer of the same value
int(label) == label

\* the exception predict raises, with the text of its message and the
\* exception the text was formatted from
PredictionError(e) ==
    [raised |-> "Exception", message |-> << "Error making prediction: ", e.raised >>]

predict_inverted(mdl, data) ==
    LET prediction == mdl.predict[data]
    IN IF Raises(prediction) THEN PredictionError(prediction)
       ELSE LET result == int(prediction.value[1])
            IN IF result = 1 THEN Returns(Legitimate) ELSE Returns(Fraudulent)

\* mdl: the module's model
predict(mdl, data) ==
    LET prediction == mdl.predict[data]
    IN IF Raises(prediction) THEN PredictionError(prediction)
       ELSE LET result == int(prediction.value[1])
            IN IF result = 0 THEN Returns(Legitimate) ELSE Returns(Fraudulent)

\* the request bodies: those the ProviderFeatures schema accepts, each with
\* the mapping model_dump() gives, and one it rejects
Bodies ==
    { [valid |-> TRUE, features |-> d] : d \in FeatureMappings } \cup
    { [valid |-> FALSE, features |-> "none"] }

Response(status, key, content) == [status |-> status, key |-> key, content |-> content]

get_prediction_uncaught(mdl, features) ==
    LET output == predict(mdl, features)
    IN IF Raises(output) THEN Response(500, "detail", "Internal Server Error")
       ELSE Response(200, "result", output.value)

\* the endpoint's answer: the status and the one key of the JSON body
get_prediction(mdl, features) ==
    LET output == predict(mdl, features)
    IN IF Raises(output) THEN Response(200, "error", output.message)
       ELSE Response(200, "result", output.value)

\* POST /predict: the framework answers a body the schema rejects itself
post_predict(mdl, body) ==
    IF body.valid THEN get_prediction(mdl, body.features)
    ELSE Response(422, "detail", "validation error")

\* ------------------------------------------------------------------------
\* scripts/export_model.py
\* ------------------------------------------------------------------------
\* what export_model may find: the model directory of the latest MLflow
\* run and the feature_columns.txt beside it, and the three files of the
\* artifacts directory
ExportSources ==
    { "mlruns/model", "mlruns/feature_columns.txt", "artifacts/model.pkl",
      "artifacts/feature_columns.pkl", "artifacts/best_params.pkl" }

\* the entries of src/serving/model/ after the copies of lines 49 to 80,
\* made into the directory emptied at lines 43 to 47
Copied(sources) ==
    (IF "mlruns/model" \in sources THEN { "mlflow_model" } ELSE {})
    \cup (IF {"mlruns/model", "mlruns/feature_columns.txt"} \subseteq sources
          THEN { "feature_columns.txt" } ELSE {})
    \cup (IF "artifacts/model.pkl" \in sources THEN { "model.pkl" } ELSE {})
    \cup (IF "artifacts/feature_columns.pkl" \in sources THEN { "feature_columns.pkl" } ELSE {})
    \cup (IF "artifacts/best_params.pkl" \in sources THEN { "best_params.pkl" } ELSE {})

\* src/serving/model/: a directory with its entries, or none
Dir(entries) == [present |-> TRUE, entries |-> entries]

NoDir == [present |-> FALSE, entries |-> {}]

\* export_model(): the export directory it leaves and what it returns or
\* raises. dir is the directory as found: whatever it is, it is removed
\* and made anew before the copies
export_model(sources, dir) ==
    LET has_mlflow == "mlflow_model" \in Copied(sources)
        has_joblib == "model.pkl" \in Copied(sources)
    IN [dir |-> Dir(Copied(sources)),
        outcome |-> IF ~has_mlflow /\ ~has_joblib
                    THEN Raise("FileNotFoundError")
                    ELSE Returns("None")]

\* ------------------------------------------------------------------------
\* State
\* ------------------------------------------------------------------------
VARIABLES
    pc,           \* run_pipeline.main: the statement about to execute
    raised,       \* the exception that ended the run, "None" while it runs
    message,      \* the message of that exception and the checks it names
    log,          \* the steps of main begun so far, in order
    inpatient,    \* main's local frames
    outpatient,
    beneficiary,
    provider,
    claims,
    reports,      \* inpatient_val, outpatient_val, beneficiary_val
    files,        \* the files the run has written: name -> content
    mlflowLog,    \* the params and metrics logged to the MLflow run
    beneRuns,     \* process_beneficiary_data: its input, then each output
    fClaims,      \* the feature functions, one after the other: the frame
    fFeatured,    \*   process_claims_data returned, and what each of
    fBene,        \*   create_claims_features, merge_beneficiary_and_claims
    fMerged,      \*   (with its beneficiary frame), aggregate_claims_features
    fFeatures,    \*   and merge_provider_train (with its label frame)
    fProvider,    \*   returned or raised
    fTrain,
    y,            \* features_train['PotentialFraud'] at line 132 of main
    y_train,      \* the labels of the training split
    study,        \* the trials of the study so far
    params,       \* what tune_model returned to main
    model,        \* what train_model returned to main
    valCall,      \* a call of a validate_* function: its name and arguments
    valReturn,    \* what the call returned or raised
    exists,       \* the model locations that exist where the service starts
    stored,       \* the model kept at each of them
    loaded,       \* inference.py's module-level model, once imported
    servCall,     \* the last call of predict or request to POST /predict
    servReturn,   \* what it returned, raised or answered
    tcClaims,     \* generate_top_codes on its own: the claim table it is given
    tcFiles,      \* and the contents of the three files it has written
    trainCall,    \* train_model on its own: its label column and xgb_params
    trainReturn,  \* and what it returned or raised
    expSources,   \* export_model: the models and files there are to export
    expBefore,    \* the export directory as it was when export_model began
    expDir,       \* the export directory
    expReturn     \* what export_model returned or raised

pipeVars ==
    << pc, raised, message, log, inpatient, outpatient, beneficiary, provider, claims,
       reports, files, mlflowLog >>

beneVars == << beneRuns >>

featVars == << fClaims, fFeatured, fBene, fMerged, fFeatures, fProvider, fTrain >>

\* what main does not touch
valVars == << valCall, valReturn >>

\* the variables of the functions that are called outside the training run
servVars == << exists, stored, loaded, servCall, servReturn >>

topVars == << tcClaims, tcFiles >>

trainVars == << trainCall, trainReturn >>

exportVars == << expSources, expBefore, expDir, expReturn >>

extraVars == << valVars, servVars, topVars, trainVars, exportVars >>

besideMain == << beneVars, featVars, extraVars >>

modelVars == << y, y_train, study, params, model >>

\* what the validate_* functions and the service leave alone
mainVars == << pipeVars, beneVars, featVars, modelVars >>

aroundValidate == << mainVars, servVars, topVars, trainVars, exportVars >>

aroundServing == << mainVars, valVars, topVars, trainVars, exportVars >>

aroundTopCodes == << mainVars, valVars, servVars, trainVars, exportVars >>

aroundTrain == << mainVars, valVars, servVars, topVars, exportVars >>

aroundExport == << mainVars, valVars, servVars, topVars, trainVars >>

vars ==
    << pc, raised, message, log, inpatient, outpatient, beneficiary, provider, claims,
       reports, files, mlflowLog, beneRuns,
       fClaims, fFeatured, fBene, fMerged, fFeatures, fProvider, fTrain,
       y, y_train, study, params, model, valCall, valReturn,
       exists, stored, loaded, servCall, servReturn, tcClaims, tcFiles,
       trainCall, trainReturn, expSources, expBefore, expDir, expReturn >>

Unset == [unset |-> TRUE]

NoFiles == [n \in {} |-> << >>]

\* the message of an exception: its text and the failed checks the text
\* names, as << test, column >>
Message(text, checks) == [text |-> text, checks |-> checks]

NoMessage == Message("", << >>)

PipelineOff ==
    /\ pc = "off"
    /\ raised = "None"
    /\ message = NoMessage
    /\ log = << >>
    /\ inpatient = Unset
    /\ outpatient = Unset
    /\ beneficiary = Unset
    /\ provider = Unset
    /\ claims = Unset
    /\ reports = NoFiles
    /\ files = NoFiles
    /\ mlflowLog = {}

BeneOff == beneRuns = << >>

FeaturesOff ==
    /\ fClaims = Unset
    /\ fFeatured = Unset
    /\ fBene = Unset
    /\ fMerged = Unset
    /\ fFeatures = Unset
    /\ fProvider = Unset
    /\ fTrain = Unset

ModelOff ==
    /\ y = Unset
    /\ y_train = Unset
    /\ study = << >>
    /\ params = Unset
    /\ model = Unset

ValOff ==
    /\ valCall = Unset
    /\ valReturn = Unset

ServOff ==
    /\ exists = {}
    /\ stored = NoFiles
    /\ loaded = Unset
    /\ servCall = Unset
    /\ servReturn = Unset

TopOff ==
    /\ tcClaims = Unset
    /\ tcFiles = Unset

TrainOff ==
    /\ trainCall = Unset
    /\ trainReturn = Unset

ExportOff ==
    /\ expSources = {}
    /\ expBefore = Unset
    /\ expDir = Unset
    /\ expReturn = Unset

ExtraOff == ValOff /\ ServOff /\ TopOff /\ TrainOff /\ ExportOff

\* ------------------------------------------------------------------------
\* process_beneficiary_data on its own: a beneficiary batch, processed
\* and then processed again
\* ------------------------------------------------------------------------
BeneficiaryColumns == Range(BeneficiaryRequired)

BeneRow(id, gender, race, renal, chronic) ==
    [c \in BeneficiaryColumns |->
        CASE c = "BeneID" -> id
          [] c = "Gender" -> gender
          [] c = "Race" -> race
          [] c = "RenalDiseaseIndicator" -> renal
          [] c = "ChronicCond_Alzheimer" -> chronic
          [] c = "DOB" -> <<"1940-01-01">>
          [] c = "DOD" -> NA
          [] c \in ChronicCondColumns -> <<2>>
          [] OTHER -> <<0>>]

\* gender 3 and race 7 are codes outside the fixed sets
BeneRowSet ==
    { BeneRow(<<"B1">>, g, r, k, h) :
        g \in {<<1>>, <<2>>, <<3>>}, r \in {<<1>>, <<5>>, <<7>>},
        k \in {<<"'0'">>, <<"'Y'">>}, h \in {<<1>>, <<2>>} }

MaxBeneRows == 2

MaxPasses == 2

SeqsUpTo(S, n) == UNION {[1..k -> S] : k \in 0..n}

InitBene ==
    /\ \E rws \in SeqsUpTo(BeneRowSet, MaxBeneRows) :
           beneRuns = << Frame(BeneficiaryColumns, rws) >>
    /\ PipelineOff
    /\ FeaturesOff
    /\ ModelOff
    /\ ExtraOff

ProcessBeneficiaryData ==
    /\ Len(beneRuns) >= 1
    /\ Len(beneRuns) <= MaxPasses
    /\ ~Raises(beneRuns[Len(beneRuns)])
    /\ beneRuns' = Append(beneRuns, process_beneficiary_data(beneRuns[Len(beneRuns)]))
    /\ UNCHANGED << pipeVars, featVars, modelVars, extraVars >>

NextBene == ProcessBeneficiaryData

SpecBene == InitBene /\ [][NextBene]_vars

IndicatorColumns ==
    { "Gender_Male", "Gender_Female", "Race_White", "Race_Black",
      "Race_Other", "Race_Unknown", "Race_Hispanic" }

GenderIndicators == { "Gender_Male", "Gender_Female" }

RaceIndicators == IndicatorColumns \ GenderIndicators

\* C7: processing the output of process_beneficiary_data again leaves every
\* chronic-condition column and the renal-disease column as the first pass
\* left them
C7_RecodingIdempotent ==
    (Len(beneRuns) >= 3 /\ ~Raises(beneRuns[3])) =>
        \A i \in 1..Len(beneRuns[2].rows) :
            \A c \in ChronicCondColumns \cup {"RenalDiseaseIndicator"} :
                beneRuns[3].rows[i][c] = beneRuns[2].rows[i][c]

\* C8: whatever gender and race codes a batch holds, the processed batch
\* has exactly the seven indicator columns, and a row whose code is outside
\* the fixed set has 0 in all the indicators of that field
C8_FixedIndicatorSchema ==
    (Len(beneRuns) >= 2 /\ ~Raises(beneRuns[2])) =>
        /\ beneRuns[2].columns \ BeneficiaryColumns = IndicatorColumns
        /\ \A i \in 1..Len(beneRuns[2].rows) :
              /\ MapGender(beneRuns[1].rows[i]["Gender"]) = NA =>
                    \A d \in GenderIndicators : beneRuns[2].rows[i][d] = <<0>>
              /\ MapRace(beneRuns[1].rows[i]["Race"]) = NA =>
                    \A d \in RaceIndicators : beneRuns[2].rows[i][d] = <<0>>

\* ------------------------------------------------------------------------
\* scripts/run_pipeline.py: main
\* ------------------------------------------------------------------------
InpatientColumns == Range(InpatientRequired)

OutpatientColumns == Range(OutpatientRequired)

\* a raw claim row over the given columns
ClaimRow(cols, claim, bene, prov, amt, start, adm) ==
    [c \in cols |->
        CASE c = "ClaimID" -> claim
          [] c = "BeneID" -> bene
          [] c = "Provider" -> prov
          [] c = "InscClaimAmtReimbursed" -> amt
          [] c = "ClaimStartDt" -> start
          [] c = "AdmissionDt" -> adm
          [] c = "ClaimEndDt" -> <<"2009-01-03">>
          [] c = "DischargeDt" -> <<"2009-01-03">>
          [] c \in {"ClmAdmitDiagnosisCode", "ClmDiagnosisCode_1"} -> <<"4019">>
          [] c = "AttendingPhysician" -> <<"PHY1">>
          [] c = "DiagnosisGroupCode" -> <<"201">>
          [] c = "DeductibleAmtPaid" -> <<0>>
          [] OTHER -> NA]

\* the tables the raw files may hold
InpatientRowSet(cols) ==
    { ClaimRow(cols, c, b, <<"P1">>, a, <<"2009-01-01">>, <<"2009-01-01">>) :
        c \in {<<"C1">>, <<"C2">>}, b \in {<<"B1">>, NA}, a \in {<<100>>, <<-5>>} }

InpatientFiles ==
    { Frame(cols, rws) :
        cols \in {InpatientColumns, InpatientColumns \ {"DischargeDt"}},
        rws \in SeqsUpTo(InpatientRowSet(InpatientColumns), MaxRawRows) }

OutpatientFiles ==
    { Frame(OutpatientColumns, rws) :
        rws \in SeqsUpTo(
            { ClaimRow(OutpatientColumns, <<"C3">>, b, <<"P1">>, <<300>>, s, NA) :
                b \in {<<"B1">>, NA}, s \in {<<"2009-01-02">>, <<"02/30/2009">>} },
            MaxRawRows) }

BeneficiaryFiles ==
    { Frame(BeneficiaryColumns, rws) :
        rws \in SeqsUpTo(
            { BeneRow(b, g, <<1>>, <<"'Y'">>, <<1>>) :
                b \in {<<"B1">>, <<"B2">>}, g \in {<<1>>, <<3>>} },
            MaxRawRows) }

ProviderColumns == { "Provider", "PotentialFraud" }

ProviderFiles ==
    { Frame(ProviderColumns, rws) :
        rws \in SeqsUpTo(
            { [Provider |-> <<"P1">>, PotentialFraud |-> <<label>>] : label \in {"Yes", "No"} },
            1) }

\* load_data(path): the table the file holds
load_data(file) == file

\* the statement that follows p in main
SuccessorLateLabels(p) ==
    CASE p = "start" -> "load_inpatient"
      [] p = "load_inpatient" -> "validate_inpatient"
      [] p = "validate_inpatient" -> "load_outpatient"
      [] p = "load_outpatient" -> "validate_outpatient"
      [] p = "validate_outpatient" -> "load_beneficiary"
      [] p = "load_beneficiary" -> "validate_beneficiary"
      [] p = "validate_beneficiary" -> "process_beneficiary"
      [] p = "process_beneficiary" -> "process_claims"
      [] p = "process_claims" -> "load_provider"
      [] p = "load_provider" -> "generate_top_codes"
      [] p = "generate_top_codes" -> "create_claims_features"
      [] p = "create_claims_features" -> "merge_beneficiary_and_claims"
      [] p = "merge_beneficiary_and_claims" -> "aggregate_claims_features"
      [] p = "aggregate_claims_features" -> "merge_provider_train"
      [] p = "merge_provider_train" -> "save_training_data"
      [] p = "save_training_data" -> "tune_model"
      [] p = "tune_model" -> "study_optimize"
      [] p = "study_optimize" -> "save_best_params"
      [] p = "save_best_params" -> "train_model"
      [] p = "train_model" -> "save_model"
      [] p = "save_model" -> "save_feature_columns"
      [] OTHER -> "end"

Successor(p) ==
    CASE p = "start" -> "load_inpatient"
      [] p = "load_inpatient" -> "validate_inpatient"
      [] p = "validate_inpatient" -> "load_outpatient"
      [] p = "load_outpatient" -> "validate_outpatient"
      [] p = "validate_outpatient" -> "load_beneficiary"
      [] p = "load_beneficiary" -> "validate_beneficiary"
      [] p = "validate_beneficiary" -> "load_provider"
      [] p = "load_provider" -> "process_beneficiary"
      [] p = "process_beneficiary" -> "process_claims"
      [] p = "process_claims" -> "generate_top_codes"
      [] p = "generate_top_codes" -> "create_claims_features"
      [] p = "create_claims_features" -> "merge_beneficiary_and_claims"
      [] p = "merge_beneficiary_and_claims" -> "aggregate_claims_features"
      [] p = "aggregate_claims_features" -> "merge_provider_train"
      [] p = "merge_provider_train" -> "save_training_data"
      [] p = "save_training_data" -> "tune_model"
      [] p = "tune_model" -> "study_optimize"
      [] p = "study_optimize" -> "save_best_params"
      [] p = "save_best_params" -> "train_model"
      [] p = "train_model" -> "save_model"
      [] p = "save_model" -> "save_feature_columns"
      [] OTHER -> "end"

\* if val['success']: print(...) else: raise ValueError(...)
ValidationGateOpen(val) == "None"

ValidationGate(val) == IF val.success THEN "None" ELSE "ValueError"

At(p) == pc = p /\ raised = "None"

\* a step that ran to its end / a step that raised
Proceed ==
    pc' = Successor(pc) /\ log' = Append(log, pc) /\ raised' = "None" /\ message' = message

AbortWith(type, msg) ==
    pc' = pc /\ log' = Append(log, pc) /\ raised' = type /\ message' = msg

\* an exception raised inside a library or a called function
Abort(type) == AbortWith(type, NoMessage)

\* raise ValueError("Inpatient data validation failed.") and the like
ValidationMessage(name) ==
    CASE name = "inpatient" -> Message("Inpatient data validation failed.", << >>)
      [] name = "outpatient" -> Message("Outpatient data validation failed.", << >>)
      [] name = "beneficiary" -> Message("Beneficiary data validation failed.", << >>)

InitPipeline ==
    /\ pc = "start"
    /\ raised = "None"
    /\ message = NoMessage
    /\ log = << >>
    /\ inpatient = Unset
    /\ outpatient = Unset
    /\ beneficiary = Unset
    /\ provider = Unset
    /\ claims = Unset
    /\ reports = NoFiles
    /\ files = NoFiles
    /\ mlflowLog = {}
    /\ BeneOff
    /\ FeaturesOff
    /\ ModelOff
    /\ ExtraOff

StartRun ==
    /\ At("start")
    /\ mlflowLog' = mlflowLog \cup {"model", "target"}
    /\ Proceed
    /\ UNCHANGED << inpatient, outpatient, beneficiary, provider, claims, reports, files, besideMain, modelVars >>

LoadInpatient ==
    /\ At("load_inpatient")
    /\ \E f \in InpatientFiles : inpatient' = load_data(f)
    /\ Proceed
    /\ UNCHANGED << outpatient, beneficiary, provider, claims, reports, files, mlflowLog, besideMain, modelVars >>

Validated(name, val) ==
    /\ reports' = [n \in DOMAIN reports \cup {name} |-> IF n = name THEN val ELSE reports[n]]
    /\ IF ValidationGate(val) = "None"
       THEN /\ mlflowLog' = mlflowLog \cup {"validation_" \o name \o "_pass"}
            /\ Proceed
       ELSE /\ mlflowLog' = mlflowLog
            /\ AbortWith(ValidationGate(val), ValidationMessage(name))

ValidateInpatient ==
    /\ At("validate_inpatient")
    /\ Validated("inpatient", validate_inpatient_data(inpatient, FALSE))
    /\ UNCHANGED << inpatient, outpatient, beneficiary, provider, claims, files, besideMain, modelVars >>

LoadOutpatient ==
    /\ At("load_outpatient")
    /\ \E f \in OutpatientFiles : outpatient' = load_data(f)
    /\ Proceed
    /\ UNCHANGED << inpatient, beneficiary, provider, claims, reports, files, mlflowLog, besideMain, modelVars >>

ValidateOutpatient ==
    /\ At("validate_outpatient")
    /\ Validated("outpatient", validate_outpatient_data(outpatient, FALSE))
    /\ UNCHANGED << inpatient, outpatient, beneficiary, provider, claims, files, besideMain, modelVars >>

LoadBeneficiary ==
    /\ At("load_beneficiary")
    /\ \E f \in BeneficiaryFiles : beneficiary' = load_data(f)
    /\ Proceed
    /\ UNCHANGED << inpatient, outpatient, provider, claims, reports, files, mlflowLog, besideMain, modelVars >>

ValidateBeneficiary ==
    /\ At("validate_beneficiary")
    /\ Validated("beneficiary", validate_beneficiary_data(beneficiary, FALSE))
    /\ UNCHANGED << inpatient, outpatient, beneficiary, provider, claims, files, besideMain, modelVars >>

LoadProvider ==
    /\ At("load_provider")
    /\ \E f \in ProviderFiles : provider' = load_data(f)
    /\ mlflowLog' = mlflowLog \cup {"load_time"}
    /\ Proceed
    /\ UNCHANGED << inpatient, outpatient, beneficiary, claims, reports, files, besideMain, modelVars >>

ProcessBeneficiary ==
    /\ At("process_beneficiary")
    /\ LET out == process_beneficiary_data(beneficiary)
       IN IF Raises(out)
          THEN beneficiary' = beneficiary /\ Abort(out.raised)
          ELSE beneficiary' = out /\ Proceed
    /\ UNCHANGED << inpatient, outpatient, provider, claims, reports, files, mlflowLog, besideMain, modelVars >>

ProcessClaims ==
    /\ At("process_claims")
    /\ inpatient' = TagInpatient(inpatient)
    /\ outpatient' = TagOutpatient(outpatient)
    /\ LET out == process_claims_data(inpatient, outpatient)
       IN IF Raises(out)
          THEN claims' = claims /\ mlflowLog' = mlflowLog /\ Abort(out.raised)
          ELSE claims' = out /\ mlflowLog' = mlflowLog \cup {"preprocess_time"} /\ Proceed
    /\ UNCHANGED << beneficiary, provider, reports, files, besideMain, modelVars >>

\* top_diagnosis, top_attending, top_operating = generate_top_codes(...):
\* the files are written, then unpacking the returned None raises TypeError
GenerateTopCodes ==
    /\ At("generate_top_codes")
    /\ IF ~(TopCodeColumns \subseteq claims.columns)
       THEN files' = files /\ Abort("KeyError")
       ELSE /\ \E w \in TopCodeFiles(claims) :
                  files' = [n \in DOMAIN files \cup
                                  {"top_diagnosis_code.csv", "top_attending_physician.csv",
                                   "top_operating_physician.csv"} |->
                               CASE n = "top_diagnosis_code.csv" -> w.top_diagnosis_code
                                 [] n = "top_attending_physician.csv" -> w.top_attending_physician
                                 [] n = "top_operating_physician.csv" -> w.top_operating_physician
                                 [] OTHER -> files[n]]
            /\ IF generate_top_codes_return = "None"
               THEN Abort("TypeError")
               ELSE Proceed
    /\ UNCHANGED << inpatient, outpatient, beneficiary, provider, claims, reports, mlflowLog, besideMain, modelVars >>

Init == InitPipeline

Next ==
    \/ StartRun
    \/ LoadInpatient
    \/ ValidateInpatient
    \/ LoadOutpatient
    \/ ValidateOutpatient
    \/ LoadBeneficiary
    \/ ValidateBeneficiary
    \/ LoadProvider
    \/ ProcessBeneficiary
    \/ ProcessClaims
    \/ GenerateTopCodes

Spec == Init /\ [][Next]_vars

\* ------------------------------------------------------------------------
\* The feature functions on their own, each applied to what the one before
\* it returned: process_claims_data, create_claims_features (with the top
\* codes generate_top_codes writes), merge_beneficiary_and_claims,
\* aggregate_claims_features, merge_provider_train
\* ------------------------------------------------------------------------
MaxClaims == 2

MaxLabels == 2

ClaimIds == << "C1", "C2", "C3", "C4", "C5", "C6" >>

\* the inpatient rows tried: << provider, beneficiary, amount, claim start,
\* admission >>; they differ in the grouping keys and the amount, or in
\* the two dates, one has no amount and one the id of no beneficiary
ClaimRowSpecs ==
    { << <<p>>, b, <<a>>, <<"2009-01-01">>, <<"2009-01-01">> >> :
        p \in {"P1", "P2"}, b \in {<<"B1">>, <<"B2">>, NA}, a \in {100, 300} }
    \cup
    { << <<"P1">>, <<"B1">>, <<100>>, d[1], d[2] >> :
        d \in { << <<"2009-01-01 12:00">>, <<"2009-01-02">> >>,
                << <<"2009-01-02">>, <<"2009-01-01 12:00">> >>,
                << <<"2009-01-02">>, <<"2009-01-02">> >>,
                << NA, <<"2009-01-02">> >>,
                << <<"2009-01-02">>, NA >> } }
    \cup
    { << <<"P1">>, <<"B1">>, NA, <<"2009-01-01">>, <<"2009-01-01">> >>,
      << <<"P1">>, <<"B9">>, <<100>>, <<"2009-01-01">>, <<"2009-01-01">> >> }

InpatientOf(specs) ==
    Frame(InpatientColumns,
          [i \in 1..Len(specs) |->
              ClaimRow(InpatientColumns, << ClaimIds[i] >>, specs[i][2], specs[i][1],
                       specs[i][3], specs[i][4], specs[i][5])])

OutpatientOf(n) ==
    Frame(OutpatientColumns,
          [i \in 1..n |->
              ClaimRow(OutpatientColumns, <<"C9">>, <<"B2">>, <<"P2">>, <<300>>,
                       <<"2009-01-02">>, NA)])

\* processed beneficiary frames: four beneficiaries who between them have
\* every gender and race the aggregation reads, and the same with a fifth
\* whose id is missing
ReferenceBeneficiaries ==
    << BeneRow(<<"B1">>, <<1>>, <<1>>, <<"'0'">>, <<1>>),
       BeneRow(<<"B2">>, <<2>>, <<2>>, <<"'Y'">>, <<2>>),
       BeneRow(<<"B3">>, <<1>>, <<5>>, <<"'0'">>, <<2>>),
       BeneRow(<<"B4">>, <<2>>, <<3>>, <<"'0'">>, <<2>>) >>

BeneficiaryFrames ==
    { process_beneficiary_data(Frame(BeneficiaryColumns, ReferenceBeneficiaries)),
      process_beneficiary_data(
          Frame(BeneficiaryColumns,
                Append(ReferenceBeneficiaries, BeneRow(NA, <<1>>, <<1>>, <<"'0'">>, <<2>>)))) }

LabelFrames ==
    { Frame(ProviderColumns, rws) :
        rws \in SeqsUpTo({ [Provider |-> <<"P1">>, PotentialFraud |-> <<"Yes">>],
                           [Provider |-> <<"P3">>, PotentialFraud |-> <<"No">>] },
                         MaxLabels) }

IsFrame(x) == "rows" \in DOMAIN x

InitFeatures ==
    /\ \E specs \in SeqsUpTo(ClaimRowSpecs, MaxClaims), n \in 0..1 :
           fClaims = process_claims_data(InpatientOf(specs), OutpatientOf(n))
    /\ fFeatured = Unset
    /\ fBene = Unset
    /\ fMerged = Unset
    /\ fFeatures = Unset
    /\ fProvider = Unset
    /\ fTrain = Unset
    /\ PipelineOff
    /\ BeneOff
    /\ ModelOff
    /\ ExtraOff

CreateClaimsFeatures ==
    /\ IsFrame(fClaims)
    /\ fFeatured = Unset
    /\ TopCodeColumns \subseteq fClaims.columns
    /\ \E w \in TopCodeFiles(fClaims) :
           fFeatured' = create_claims_features(fClaims, w.top_diagnosis_code,
                                               w.top_attending_physician,
                                               w.top_operating_physician)
    /\ UNCHANGED << fClaims, fBene, fMerged, fFeatures, fProvider, fTrain, pipeVars, beneVars, modelVars, extraVars >>

MergeBeneficiaryAndClaims ==
    /\ IsFrame(fFeatured)
    /\ fMerged = Unset
    /\ \E b \in BeneficiaryFrames :
           /\ fBene' = b
           /\ fMerged' = merge_beneficiary_and_claims(b, fFeatured)
    /\ UNCHANGED << fClaims, fFeatured, fFeatures, fProvider, fTrain, pipeVars, beneVars, modelVars, extraVars >>

AggregateClaimsFeatures ==
    /\ IsFrame(fMerged)
    /\ fFeatures = Unset
    /\ fFeatures' = aggregate_claims_features(fMerged)
    /\ UNCHANGED << fClaims, fFeatured, fBene, fMerged, fProvider, fTrain, pipeVars, beneVars, modelVars, extraVars >>

MergeProviderTrain ==
    /\ IsFrame(fFeatures)
    /\ fTrain = Unset
    /\ \E labels \in LabelFrames :
           /\ fProvider' = labels
           /\ fTrain' = merge_provider_train(fFeatures, labels)
    /\ UNCHANGED << fClaims, fFeatured, fBene, fMerged, fFeatures, pipeVars, beneVars, modelVars, extraVars >>

NextFeatures ==
    \/ CreateClaimsFeatures
    \/ MergeBeneficiaryAndClaims
    \/ AggregateClaimsFeatures
    \/ MergeProviderTrain

SpecFeatures == InitFeatures /\ [][NextFeatures]_vars

\* ------------------------------------------------------------------------
\* main from line 132 on, entered with the labelled frame
\* merge_provider_train returned: the training table saved, tune_model (its
\* split, its trials, its return), the best parameters saved, train_model,
\* the model and the feature columns saved
\* ------------------------------------------------------------------------
MaxProviders == 12

\* the study runs n_trials=100 trials; the model runs MaxTrials
MaxTrials == 2

StepsBeforeSave ==
    << "start", "load_inpatient", "validate_inpatient", "load_outpatient",
       "validate_outpatient", "load_beneficiary", "validate_beneficiary",
       "load_provider", "process_beneficiary", "process_claims", "generate_top_codes",
       "create_claims_features", "merge_beneficiary_and_claims",
       "aggregate_claims_features", "merge_provider_train" >>

FilesBeforeSave ==
    [n \in {"top_diagnosis_code.csv", "top_attending_physician.csv",
            "top_operating_physician.csv"} |-> Unset]

LoggedBeforeSave ==
    { "model", "target", "validation_inpatient_pass", "validation_outpatient_pass",
      "validation_beneficiary_pass", "load_time", "preprocess_time",
      "feature_eng_time", "n_features", "n_samples", "fraud_rate" }

WriteFile(name, content) ==
    files' = [n \in DOMAIN files \cup {name} |-> IF n = name THEN content ELSE files[n]]

InitModel ==
    /\ pc = "save_training_data"
    /\ raised = "None"
    /\ message = NoMessage
    /\ log = StepsBeforeSave
    /\ inpatient = Unset
    /\ outpatient = Unset
    /\ beneficiary = Unset
    /\ provider = Unset
    /\ claims = Unset
    /\ reports = NoFiles
    /\ files = FilesBeforeSave
    /\ mlflowLog = LoggedBeforeSave
    /\ \E zeros, ones \in 0..MaxProviders :
          /\ zeros + ones <= MaxProviders
          /\ y = Labels(zeros, ones)
    /\ y_train = Unset
    /\ study = << >>
    /\ params = Unset
    /\ model = Unset
    /\ BeneOff
    /\ FeaturesOff
    /\ ExtraOff

aroundModel ==
    << inpatient, outpatient, beneficiary, provider, claims, reports, beneVars, featVars,
       extraVars >>

\* line 133
SaveTrainingData ==
    /\ At("save_training_data")
    /\ WriteFile("training_data.csv", y)
    /\ Proceed
    /\ UNCHANGED << mlflowLog, modelVars, aroundModel >>

\* line 144, tune_model lines 11 to 35
TuneSplit ==
    /\ At("tune_model")
    /\ \E split \in train_test_split(y) :
          IF Raises(split)
          THEN y_train' = y_train /\ Abort(split.raised)
          ELSE /\ y_train' = split
               /\ IF Raises(scale_pos_weight(split))
                  THEN Abort(scale_pos_weight(split).raised)
                  ELSE Proceed
    /\ UNCHANGED << files, mlflowLog, y, study, params, model, aroundModel >>

\* tune_model line 67: one trial of the study, objective lines 37 to 61.
\* cross_val_score raises ValueError when the splitter refuses the labels
\* and when the fit of every fold failed; objective catches nothing and the
\* study is run with no exception to catch, so that what objective raises
\* leaves study.optimize and tune_model
RunTrial ==
    /\ At("study_optimize")
    /\ Len(study) < MaxTrials
    /\ \E every_fit_failed \in BOOLEAN :
          IF SplitterRaises(y_train) \/ every_fit_failed
          THEN study' = study /\ Abort("ValueError")
          ELSE /\ \E suggested \in Suggested, value \in TrialValues :
                     study' = Append(study, Trial(suggested, value))
               /\ UNCHANGED << pc, log, raised, message >>
    /\ UNCHANGED << files, mlflowLog, y, y_train, params, model, aroundModel >>

\* tune_model lines 69 to 78, main lines 145 and 146
ReturnBestParams ==
    /\ At("study_optimize")
    /\ Len(study) = MaxTrials
    /\ \E best \in best_params(study) :
          IF Raises(best)
          THEN params' = params /\ mlflowLog' = mlflowLog /\ Abort(best.raised)
          ELSE /\ params' = TunedParams(best, scale_pos_weight(y_train).value)
               /\ mlflowLog' = mlflowLog \cup {"tune_time"}
               /\ Proceed
    /\ UNCHANGED << files, y, y_train, study, model, aroundModel >>

\* lines 149 to 152
SaveBestParams ==
    /\ At("save_best_params")
    /\ WriteFile("best_params.pkl", params)
    /\ mlflowLog' = mlflowLog \cup { "best_" \o k : k \in DOMAIN params }
    /\ Proceed
    /\ UNCHANGED << modelVars, aroundModel >>

\* lines 162 to 167: train_model splits the frame as tune_model did, with
\* the same random_state; the classifier library may fail the fit
TrainModel ==
    /\ At("train_model")
    /\ \E fitted \in BOOLEAN :
          IF fitted
          THEN /\ model' = [params |-> ClassifierParams(params, scale_pos_weight(y_train).value)]
               /\ mlflowLog' = mlflowLog \cup {"train_time", "roc_auc", "recall", "f1"}
               /\ Proceed
          ELSE model' = model /\ mlflowLog' = mlflowLog /\ Abort("XGBoostError")
    /\ UNCHANGED << files, y, y_train, study, params, aroundModel >>

\* lines 176 to 178
SaveModel ==
    /\ At("save_model")
    /\ WriteFile("model.pkl", model)
    /\ mlflowLog' = mlflowLog \cup {"model.pkl"}
    /\ Proceed
    /\ UNCHANGED << modelVars, aroundModel >>

\* lines 182 and 183
SaveFeatureColumns ==
    /\ At("save_feature_columns")
    /\ WriteFile("feature_columns.pkl", Unset)
    /\ Proceed
    /\ UNCHANGED << mlflowLog, modelVars, aroundModel >>

NextModel ==
    \/ SaveTrainingData
    \/ TuneSplit
    \/ RunTrial
    \/ ReturnBestParams
    \/ SaveBestParams
    \/ TrainModel
    \/ SaveModel
    \/ SaveFeatureColumns

SpecModel == InitModel /\ [][NextModel]_vars

\* ------------------------------------------------------------------------
\* The four validate_* functions on their own, called on a table with
\* raise_on_fail set or not
\* ------------------------------------------------------------------------
InferenceColumns == Range(InferenceRequired) \cup {"Provider", "PotentialFraud"}

\* a row of engineered features, missing in the given columns
InferenceRow(cols, missing) ==
    [c \in cols |->
        IF c \in missing THEN NA
        ELSE IF c = "Provider" THEN <<"P1">>
        ELSE <<0>>]

\* the feature tables tried: complete, or without some required columns,
\* with rows that miss a required feature or one of the other two columns
InferenceFrames ==
    { Restrict(Frame(InferenceColumns, rws), cols) :
        cols \in { InferenceColumns,
                   InferenceColumns \ {"claims_per_bene"},
                   InferenceColumns \ {"claims_per_bene", "count_inpatient",
                                       "count_outpatient", "mean_age"} },
        rws \in SeqsUpTo({ InferenceRow(InferenceColumns, m) :
                             m \in { {}, {"std_claim_amount"}, {"PotentialFraud"} } },
                         MaxRawRows) }

Validators == { "validate_inpatient_data", "validate_outpatient_data",
                "validate_beneficiary_data", "validate_inference_data" }

TablesFor(fn) ==
    CASE fn = "validate_inpatient_data" -> InpatientFiles
      [] fn = "validate_outpatient_data" -> OutpatientFiles
      [] fn = "validate_beneficiary_data" -> BeneficiaryFiles
      [] fn = "validate_inference_data" -> InferenceFrames

InitValidate ==
    /\ \E fn \in Validators, raise_on_fail \in BOOLEAN :
          \E df \in TablesFor(fn) :
              valCall = [fn |-> fn, df |-> df, raise_on_fail |-> raise_on_fail]
    /\ valReturn = Unset
    /\ PipelineOff
    /\ BeneOff
    /\ FeaturesOff
    /\ ModelOff
    /\ ServOff
    /\ TopOff
    /\ TrainOff
    /\ ExportOff

Called(fn) == valCall # Unset /\ valCall.fn = fn /\ valReturn = Unset

ValidateInpatientData ==
    /\ Called("validate_inpatient_data")
    /\ valReturn' = validate_inpatient_data(valCall.df, valCall.raise_on_fail)
    /\ UNCHANGED << valCall, aroundValidate >>

ValidateOutpatientData ==
    /\ Called("validate_outpatient_data")
    /\ valReturn' = validate_outpatient_data(valCall.df, valCall.raise_on_fail)
    /\ UNCHANGED << valCall, aroundValidate >>

ValidateBeneficiaryData ==
    /\ Called("validate_beneficiary_data")
    /\ valReturn' = validate_beneficiary_data(valCall.df, valCall.raise_on_fail)
    /\ UNCHANGED << valCall, aroundValidate >>

ValidateInferenceData ==
    /\ Called("validate_inference_data")
    /\ valReturn' = validate_inference_data(valCall.df, valCall.raise_on_fail)
    /\ UNCHANGED << valCall, aroundValidate >>

NextValidate ==
    \/ ValidateInpatientData
    \/ ValidateOutpatientData
    \/ ValidateBeneficiaryData
    \/ ValidateInferenceData

SpecValidate == InitValidate /\ [][NextValidate]_vars

\* ------------------------------------------------------------------------
\* The service: inference.py is imported where some of the model locations
\* exist, then predict is called and POST /predict is requested
\* ------------------------------------------------------------------------
InitServing ==
    /\ exists \in SUBSET ModelLocations
    /\ stored \in [exists -> Models]
    /\ loaded = Unset
    /\ servCall = Unset
    /\ servReturn = Unset
    /\ PipelineOff
    /\ BeneOff
    /\ FeaturesOff
    /\ ModelOff
    /\ ValOff
    /\ TopOff
    /\ TrainOff
    /\ ExportOff

\* line 83 of inference.py, run by main.py's import at its line 31
ImportInference ==
    /\ loaded = Unset
    /\ loaded' = _load_model(exists, stored)
    /\ UNCHANGED << exists, stored, servCall, servReturn, aroundServing >>

Imported == loaded # Unset /\ ~Raises(loaded)

Predict ==
    /\ Imported
    /\ \E data \in FeatureMappings :
          /\ servCall' = [fn |-> "predict", data |-> data]
          /\ servReturn' = predict(loaded.value, data)
    /\ UNCHANGED << exists, stored, loaded, aroundServing >>

PostPredict ==
    /\ Imported
    /\ \E body \in Bodies :
          /\ servCall' = [fn |-> "POST /predict", body |-> body]
          /\ servReturn' = post_predict(loaded.value, body)
    /\ UNCHANGED << exists, stored, loaded, aroundServing >>

NextServing ==
    \/ ImportInference
    \/ Predict
    \/ PostPredict

SpecServing == InitServing /\ [][NextServing]_vars

\* ------------------------------------------------------------------------
\* generate_top_codes on its own, on claim tables that have more distinct
\* codes and attending physicians than the files keep
\* ------------------------------------------------------------------------
MaxTailRows == 4

\* the codes whose claim counts differ from each other and exceed those of
\* every tail code: the k-th of them has TopN + 2 - k claims
LeadCodes == [k \in 1..(TopN - 1) |-> "L" \o ToString(k)]

TailCodes == { "T1", "T2", "T3" }

\* a row of the claim table with the diagnosis code; its attending
\* physician is the code's own, and only the rows of a tail code have an
\* operating physician
CodedRow(code) ==
    [c \in TopCodeColumns |->
        CASE c = "ClaimID" -> << "C-" \o code >>
          [] c = "ClmAdmitDiagnosisCode" -> << code >>
          [] c = "AttendingPhysician" -> << "PHY-" \o code >>
          [] c = "OperatingPhysician" -> IF code \in TailCodes THEN << "OP-" \o code >> ELSE NA]

LeadRows ==
    Flatten([k \in 1..(TopN - 1) |-> [j \in 1..(TopN + 2 - k) |-> CodedRow(LeadCodes[k])]])

\* the tables tried: the rows of the tail codes, in any order and number,
\* before the rows of the lead codes
CodedTables ==
    { Frame(TopCodeColumns, [i \in 1..Len(tail) |-> CodedRow(tail[i])] \o LeadRows) :
        tail \in SeqsUpTo(TailCodes, MaxTailRows) }

InitTopCodes ==
    /\ tcClaims \in CodedTables
    /\ tcFiles = Unset
    /\ PipelineOff
    /\ BeneOff
    /\ FeaturesOff
    /\ ModelOff
    /\ ValOff
    /\ ServOff
    /\ TrainOff
    /\ ExportOff

\* generate_top_codes(df, save_directory), lines 6 to 11
GenerateTopCodesAlone ==
    /\ tcClaims # Unset
    /\ tcFiles = Unset
    /\ tcFiles' \in TopCodeFiles(tcClaims)
    /\ UNCHANGED << tcClaims, aroundTopCodes >>

NextTopCodes == GenerateTopCodesAlone

SpecTopCodes == InitTopCodes /\ [][NextTopCodes]_vars

\* ------------------------------------------------------------------------
\* train_model on its own, called with and without xgb_params
\* ------------------------------------------------------------------------
\* the xgb_params tried: none, the parameters tune_model returns with a
\* weight of 1 or of 99, and mappings of one and of two keys
XgbParams ==
    { NoParams }
    \cup { TunedParams(best, w) : best \in Suggested, w \in {1, 99} }
    \cup { [k \in {"max_depth"} |-> 3],
           [k \in {"scale_pos_weight", "objective"} |->
               IF k = "objective" THEN "binary:hinge" ELSE 99] }

InitTrain ==
    /\ \E zeros, ones \in 0..MaxProviders, xgb_params \in XgbParams :
          /\ zeros + ones <= MaxProviders
          /\ trainCall = [labels |-> Labels(zeros, ones), xgb_params |-> xgb_params]
    /\ trainReturn = Unset
    /\ PipelineOff
    /\ BeneOff
    /\ FeaturesOff
    /\ ModelOff
    /\ ValOff
    /\ ServOff
    /\ TopOff
    /\ ExportOff

TrainModelAlone ==
    /\ trainCall # Unset
    /\ trainReturn = Unset
    /\ trainReturn' \in train_model(trainCall.labels, trainCall.xgb_params)
    /\ UNCHANGED << trainCall, aroundTrain >>

NextTrain == TrainModelAlone

SpecTrain == InitTrain /\ [][NextTrain]_vars

\* ------------------------------------------------------------------------
\* export_model, run where some of its sources exist, with or without an
\* export directory left by an earlier run
\* ------------------------------------------------------------------------
\* the export directories an earlier run may have left
EarlierExports ==
    { Dir(Copied(sources)) : sources \in SUBSET ExportSources } \ { Dir({}) }

InitExport ==
    /\ expSources \in SUBSET ExportSources
    /\ expBefore \in { NoDir } \cup EarlierExports
    /\ expDir = expBefore
    /\ expReturn = Unset
    /\ PipelineOff
    /\ BeneOff
    /\ FeaturesOff
    /\ ModelOff
    /\ ValOff
    /\ ServOff
    /\ TopOff
    /\ TrainOff

ExportModel ==
    /\ expReturn = Unset
    /\ expDir' = export_model(expSources, expDir).dir
    /\ expReturn' = export_model(expSources, expDir).outcome
    /\ UNCHANGED << expSources, expBefore, aroundExport >>

NextExport == ExportModel

SpecExport == InitExport /\ [][NextExport]_vars

\* ------------------------------------------------------------------------
\* Properties of main
\* ------------------------------------------------------------------------
LoadSteps == { "load_inpatient", "load_outpatient", "load_beneficiary", "load_provider" }

ValidateSteps == { "validate_inpatient", "validate_outpatient", "validate_beneficiary" }

ProcessSteps == { "process_beneficiary", "process_claims" }

EngineerSteps == { "generate_top_codes", "create_claims_features", "merge_beneficiary_and_claims" }

LaterSteps ==
    ProcessSteps \cup EngineerSteps \cup
    { "aggregate_claims_features", "merge_provider_train", "save_training_data",
      "tune_model", "save_best_params", "train_model", "save_model" }

\* C3: once the validation of a table has reported a failed check the run
\* is over, ended by that validation's ValueError: no preprocessing, feature
\* engineering, tuning, training or persistence step has begun, no frame of
\* claims exists and no file was written
C3_ValidationFailureAborts ==
    \A n \in DOMAIN reports :
        ~reports[n].success =>
            /\ raised = "ValueError"
            /\ pc = "validate_" \o n
            /\ log[Len(log)] = "validate_" \o n
            /\ Range(log) \cap LaterSteps = {}
            /\ claims = Unset
            /\ files = NoFiles

C3_Witness ==
    /\ "outpatient" \in DOMAIN reports
    /\ ~reports["outpatient"].success
    /\ reports["outpatient"].failed >= 1
    /\ reports["inpatient"].success
    /\ raised = "ValueError"

\* the stage of a step as the spec's state machine has it:
\* Load, Validate, Process, Engineer Features, ...
ClaimedStage(step) ==
    CASE step \in LoadSteps -> 1
      [] step \in ValidateSteps -> 2
      [] step \in ProcessSteps -> 3
      [] step \in EngineerSteps -> 4
      [] OTHER -> 0

\* the stage of a step as main's banners have it: stage 1 is data loading
\* and validation, stage 2 preprocessing, stage 3 feature engineering
BannerStage(step) ==
    CASE step \in LoadSteps \cup ValidateSteps -> 1
      [] step \in ProcessSteps -> 2
      [] step \in EngineerSteps -> 3
      [] OTHER -> 0

TableOf(step) ==
    CASE step \in {"load_inpatient", "validate_inpatient"} -> "inpatient"
      [] step \in {"load_outpatient", "validate_outpatient"} -> "outpatient"
      [] OTHER -> "beneficiary"

RowsOf(df, p) == {i \in 1..Len(df.rows) : df.rows[i]["Provider"] = p}

\* C1: every row aggregate_claims_features returns has a unique-beneficiary
\* count above 0 and a claims_per_bene equal to its claim count divided by
\* that count, and is the row of a provider that has a claim row in the input
C1_ClaimsPerBene ==
    IsFrame(fFeatures) =>
        \A i \in 1..Len(fFeatures.rows) :
            LET r == fFeatures.rows[i]
            IN /\ r["count_unique_beneficiary"][1] > 0
               /\ notna(r["claims_per_bene"])
               /\ r["claims_per_bene"][1].den > 0
               /\ r["claims_per_bene"][1].num * r["count_unique_beneficiary"][1]
                      = r["count_unique_claims"][1] * r["claims_per_bene"][1].den
               /\ RowsOf(fMerged, r["Provider"]) # {}

\* C2 as claimed: no row aggregate_claims_features returns has a missing
\* std_claim_amount, and the row of a provider with exactly one claim has 0
C2_AggregatorStdNeverMissing ==
    IsFrame(fFeatures) =>
        \A i \in 1..Len(fFeatures.rows) :
            /\ notna(fFeatures.rows[i]["std_claim_amount"])
            /\ Cardinality(RowsOf(fMerged, fFeatures.rows[i]["Provider"])) = 1 =>
                   fFeatures.rows[i]["std_claim_amount"][1].num = 0

\* C2 as amended: no row merge_provider_train returns has a missing
\* std_claim_amount, and the row of a provider with exactly one claim has 0
C2_LabelledStdNeverMissing ==
    IsFrame(fTrain) =>
        \A i \in 1..Len(fTrain.rows) :
            /\ notna(fTrain.rows[i]["std_claim_amount"])
            /\ fTrain.rows[i]["std_claim_amount"][1].den > 0
            /\ Cardinality(RowsOf(fMerged, fTrain.rows[i]["Provider"])) = 1 =>
                   fTrain.rows[i]["std_claim_amount"][1].num = 0

\* a labelled provider with exactly one claim: the aggregation left its
\* std_claim_amount missing and the labelled row has 0
C2_Witness ==
    /\ IsFrame(fTrain)
    /\ \E i \in 1..Len(fTrain.rows) : \E j \in 1..Len(fFeatures.rows) :
          /\ fFeatures.rows[j]["Provider"] = fTrain.rows[i]["Provider"]
          /\ Cardinality(RowsOf(fMerged, fTrain.rows[i]["Provider"])) = 1
          /\ isnull(fFeatures.rows[j]["std_claim_amount"])
          /\ fTrain.rows[i]["std_claim_amount"] = << Frac(0, 1) >>

\* C9: the frame merge_provider_train returns has at most one row for a
\* provider, and the provider of each of its rows has a row in the
\* aggregated features and a row in the label frame
C9_LabelledRowsInBoth ==
    IsFrame(fTrain) =>
        /\ \A i, j \in 1..Len(fTrain.rows) :
              fTrain.rows[i]["Provider"] = fTrain.rows[j]["Provider"] => i = j
        /\ \A i \in 1..Len(fTrain.rows) :
              /\ RowsOf(fFeatures, fTrain.rows[i]["Provider"]) # {}
              /\ RowsOf(fProvider, fTrain.rows[i]["Provider"]) # {}

\* C10: billing_before_admission is True in the rows whose admission date
\* is later than the claim start date, and False in every other row, the
\* rows with a missing claim start or admission date among them
C10_BillingBeforeAdmission ==
    IsFrame(fFeatured) =>
        /\ Len(fFeatured.rows) = Len(fClaims.rows)
        /\ \A i \in 1..Len(fClaims.rows) :
              LET start == fClaims.rows[i]["ClaimStartDt"]
                  adm == fClaims.rows[i]["AdmissionDt"]
                  flag == fFeatured.rows[i]["billing_before_admission"]
              IN /\ flag \in {<<TRUE>>, <<FALSE>>}
                 /\ (isnull(start) \/ isnull(adm)) => flag = <<FALSE>>
                 /\ (notna(start) /\ notna(adm)) => (flag = <<TRUE>> <=> adm[1] > start[1])

\* a claim admitted less than a day after its start, flagged True, beside
\* a claim with a missing date, flagged False
C10_Witness ==
    /\ IsFrame(fFeatured)
    /\ \E i, j \in 1..Len(fClaims.rows) :
          /\ notna(fClaims.rows[i]["ClaimStartDt"])
          /\ notna(fClaims.rows[i]["AdmissionDt"])
          /\ fClaims.rows[i]["AdmissionDt"][1] > fClaims.rows[i]["ClaimStartDt"][1]
          /\ fClaims.rows[i]["AdmissionDt"][1] - fClaims.rows[i]["ClaimStartDt"][1] < TicksPerDay
          /\ fFeatured.rows[i]["billing_before_admission"] = <<TRUE>>
          /\ isnull(fClaims.rows[j]["AdmissionDt"])
          /\ fFeatured.rows[j]["billing_before_admission"] = <<FALSE>>

C6_TunedImbalanceWeight ==
    params # Unset =>
        /\ "scale_pos_weight" \in DOMAIN params
        /\ y_train # Unset
        /\ y_train.ones > 0
        /\ LET weight == params["scale_pos_weight"]
               twice == 2 * (y_train.zeros - weight * y_train.ones)
           IN /\ twice <= y_train.ones
              /\ -twice <= y_train.ones
              /\ (twice = y_train.ones \/ -twice = y_train.ones) => weight % 2 = 0

\* tune_model has returned for a training split of 5 zeros and 2 ones, a
\* quotient halfway between 2 and 3, with the parameters of a best trial
\* that is not the only completed one
C6_Witness ==
    /\ params # Unset
    /\ y_train = Labels(5, 2)
    /\ params["scale_pos_weight"] = 2
    /\ \E i, j \in 1..Len(study) :
          /\ study[i].state = "COMPLETE"
          /\ study[j].state = "COMPLETE"
          /\ study[i].params # study[j].params
          /\ \A k \in SuggestedKeys : params[k] = study[i].params[k]

\* ------------------------------------------------------------------------
\* Properties of the aggregation's numbers
\* ------------------------------------------------------------------------
\* the reimbursed amounts of the provider's rows of the merged frame, the
\* missing ones left out
AmountsOf(p) ==
    { << i, fMerged.rows[i]["InscClaimAmtReimbursed"][1] >> :
        i \in { j \in RowsOf(fMerged, p) : notna(fMerged.rows[j]["InscClaimAmtReimbursed"]) } }

RECURSIVE SumOver(_)
SumOver(S) ==
    IF S = {} THEN 0
    ELSE LET e == CHOOSE x \in S : TRUE IN e[2] + SumOver(S \ {e})

\* C11 as claimed: in every row aggregate_claims_features returns,
\* count_unique_claims is the number of the provider's claim rows,
\* total_claim_amount the sum of their amounts and mean_claim_amount the
\* total divided by the count
C11_MeanIsTotalByCount ==
    IsFrame(fFeatures) =>
        \A i \in 1..Len(fFeatures.rows) :
            LET r == fFeatures.rows[i]
            IN /\ r["count_unique_claims"][1] = Cardinality(RowsOf(fMerged, r["Provider"]))
               /\ r["total_claim_amount"][1] = SumOver(AmountsOf(r["Provider"]))
               /\ notna(r["mean_claim_amount"])
               /\ r["mean_claim_amount"][1].num * r["count_unique_claims"][1]
                      = r["total_claim_amount"][1] * r["mean_claim_amount"][1].den

\* C11 as amended: count_unique_claims is the number of the provider's rows
\* that have a claim id; total_claim_amount is the sum of the amounts that
\* are not missing, mean_claim_amount that sum divided by their number n
\* (missing when n = 0), and std_claim_amount the root of the sum of the
\* squared distances to the mean divided by n - 1 (missing when n < 2)
C11_AmountStatistics ==
    IsFrame(fFeatures) =>
        \A i \in 1..Len(fFeatures.rows) :
            LET r == fFeatures.rows[i]
                amounts == AmountsOf(r["Provider"])
                n == Cardinality(amounts)
                total == SumOver(amounts)
                squares == SumOver({ << a[1], (n * a[2] - total) * (n * a[2] - total) >> : a \in amounts })
            IN /\ r["count_unique_claims"][1] =
                      Cardinality({ j \in RowsOf(fMerged, r["Provider"]) :
                                      notna(fMerged.rows[j]["ClaimID"]) })
               /\ r["total_claim_amount"][1] = total
               /\ n = 0 <=> isnull(r["mean_claim_amount"])
               /\ n > 0 => /\ r["mean_claim_amount"][1].den > 0
                           /\ r["mean_claim_amount"][1].num * n = total * r["mean_claim_amount"][1].den
               /\ n < 2 <=> isnull(r["std_claim_amount"])
               /\ n >= 2 => /\ r["std_claim_amount"][1].den > 0
                            /\ r["std_claim_amount"][1].num * n * n * (n - 1)
                                   = squares * r["std_claim_amount"][1].den

\* a provider with the two claims of 100 and 300: count 2, total 400,
\* mean 200 and variance 20000
C11_Witness ==
    /\ IsFrame(fFeatures)
    /\ \E i \in 1..Len(fFeatures.rows) :
          LET r == fFeatures.rows[i]
          IN /\ { a[2] : a \in AmountsOf(r["Provider"]) } = {100, 300}
             /\ r["count_unique_claims"] = <<2>>
             /\ r["total_claim_amount"] = <<400>>
             /\ r["mean_claim_amount"][1].num = 200 * r["mean_claim_amount"][1].den
             /\ r["std_claim_amount"][1].num = 20000 * r["std_claim_amount"][1].den

\* ------------------------------------------------------------------------
\* Properties of the validate_* functions
\* ------------------------------------------------------------------------
\* the required columns and the name of the table of a validator
RequiredOf(fn) ==
    CASE fn = "validate_inpatient_data" -> InpatientRequired
      [] fn = "validate_outpatient_data" -> OutpatientRequired
      [] fn = "validate_beneficiary_data" -> BeneficiaryRequired
      [] fn = "validate_inference_data" -> InferenceRequired

\* the checks that plainly fail on a table: a required column it lacks, and
\* the row count of a table without rows
PlainFailures(fn, df) ==
    { << "column_exists", c >> : c \in Range(RequiredOf(fn)) \ df.columns }
    \cup (IF df.rows = << >> THEN { << "row_count", "None" >> } ELSE {})

\* the same call with raise_on_fail not set
Unraised(call) ==
    CASE call.fn = "validate_inpatient_data" -> validate_inpatient_data(call.df, FALSE)
      [] call.fn = "validate_outpatient_data" -> validate_outpatient_data(call.df, FALSE)
      [] call.fn = "validate_beneficiary_data" -> validate_beneficiary_data(call.df, FALSE)
      [] call.fn = "validate_inference_data" -> validate_inference_data(call.df, FALSE)

\* C12: a validate_* call without raise_on_fail returns a report that lists
\* every failed check, however many fail; with raise_on_fail it returns the
\* same report when no check fails and otherwise raises one ValueError whose
\* message names, in order, every check the report lists as failed
C12_ReportOrOneError ==
    valReturn # Unset =>
        LET report == Unraised(valCall)
            named == IF valReturn.kind = "ValueError"
                     THEN Range(valReturn.failed_msgs)
                     ELSE { << t.test, t.column >> : t \in Range(valReturn.failed_tests) }
        IN /\ report.kind = "report"
           /\ report.failed = Len(report.failed_tests)
           /\ report.passed + report.failed = report.total_checks
           /\ report.success <=> report.failed = 0
           /\ \A i \in DOMAIN report.failed_tests : ~report.failed_tests[i].success
           /\ PlainFailures(valCall.fn, valCall.df) \subseteq named
           /\ (~valCall.raise_on_fail \/ report.success) => valReturn = report
           /\ (valCall.raise_on_fail /\ ~report.success) =>
                 /\ valReturn.kind = "ValueError"
                 /\ Len(valReturn.failed_msgs) = report.failed
                 /\ \A i \in DOMAIN report.failed_tests :
                       valReturn.failed_msgs[i] =
                           << report.failed_tests[i].test, report.failed_tests[i].column >>

\* a call with raise_on_fail on a table that fails three checks or more,
\* among them a missing required column: one ValueError naming them all
C12_Witness ==
    /\ valReturn # Unset
    /\ valCall.raise_on_fail
    /\ valReturn.kind = "ValueError"
    /\ Len(valReturn.failed_msgs) >= 3
    /\ \E c \in Range(RequiredOf(valCall.fn)) :
          c \notin valCall.df.columns /\ << "column_exists", c >> \in Range(valReturn.failed_msgs)

\* ------------------------------------------------------------------------
\* Properties of the errors of main
\* ------------------------------------------------------------------------
\* C13: when a validation has ended the run, the message of the error names
\* every check that failed in the tables validated so far
C13_ErrorNamesEveryFailedCheck ==
    (raised = "ValueError" /\ \E n \in DOMAIN reports : ~reports[n].success) =>
        \A n \in DOMAIN reports :
            \A t \in Range(reports[n].failed_tests) :
                << t.test, t.column >> \in Range(message.checks)

\* ------------------------------------------------------------------------
\* Properties of the joins and of the guards of the feature functions
\* ------------------------------------------------------------------------
\* the providers of the merged frame none of whose rows has a beneficiary id
WithoutBeneficiary ==
    { p \in Range(Column(fMerged, "Provider")) \ {NA} :
        \A i \in RowsOf(fMerged, p) : isnull(fMerged.rows[i]["BeneID"]) }

\* C14: aggregate_claims_features raises when a provider group has no
\* beneficiary id at all, and so returns no row with a unique-beneficiary
\* count of 0 or a claims_per_bene that is infinite or missing
C14_ZeroBeneficiariesFailLoudly ==
    (IsFrame(fMerged) /\ fFeatures # Unset) =>
        /\ WithoutBeneficiary # {} => Raises(fFeatures)
        /\ IsFrame(fFeatures) =>
              \A i \in 1..Len(fFeatures.rows) :
                  /\ fFeatures.rows[i]["count_unique_beneficiary"] # <<0>>
                  /\ notna(fFeatures.rows[i]["claims_per_bene"])
                  /\ fFeatures.rows[i]["claims_per_bene"][1].den # 0

\* the claim rows whose beneficiary id is the id of no beneficiary row
Unmatched ==
    { i \in 1..Len(fFeatured.rows) :
        \A j \in 1..Len(fBene.rows) : fBene.rows[j]["BeneID"] # fFeatured.rows[i]["BeneID"] }

\* C19: with beneficiary ids that are unique, merge_beneficiary_and_claims
\* returns a frame of one row for each claim row, in which every claim
\* column is as it was, and the row of a claim that matches no beneficiary
\* has every beneficiary column and the age missing
C19_UnmatchedClaimKept ==
    (IsFrame(fFeatured) /\ fMerged # Unset
        /\ \A i, j \in 1..Len(fBene.rows) :
               fBene.rows[i]["BeneID"] = fBene.rows[j]["BeneID"] => i = j) =>
        /\ IsFrame(fMerged)
        /\ Len(fMerged.rows) = Len(fFeatured.rows)
        /\ \A i \in 1..Len(fFeatured.rows) :
              /\ \A c \in fFeatured.columns : fMerged.rows[i][c] = fFeatured.rows[i][c]
              /\ i \in Unmatched =>
                    /\ \A c \in fBene.columns \ fFeatured.columns : isnull(fMerged.rows[i][c])
                    /\ isnull(fMerged.rows[i]["Age_at_Claim"])

\* the labelled providers that have no row in the aggregated features
LabelOnly ==
    { i \in 1..Len(fProvider.rows) : RowsOf(fFeatures, fProvider.rows[i]["Provider"]) = {} }

\* C20: merge_provider_train raises when a labelled provider has no row in
\* the aggregated features, since every feature but std_claim_amount is
\* then null, and a frame it returns has no null in any feature column,
\* std_claim_amount being 0 where it was missing
C20_NullFeaturesSurfaced ==
    (IsFrame(fFeatures) /\ fTrain # Unset) =>
        /\ LabelOnly # {} => Raises(fTrain)
        /\ IsFrame(fTrain) =>
              \A i \in 1..Len(fTrain.rows) :
                  \A c \in fFeatures.columns \ {"Provider"} : notna(fTrain.rows[i][c])

\* ------------------------------------------------------------------------
\* Properties of the service
\* ------------------------------------------------------------------------
PredictCalled == servCall # Unset /\ servCall.fn = "predict"

\* what the loaded model's predict did with the mapping of the last call
ModelOutcome == loaded.value.predict[servCall.data]

\* C15: where the loaded model returns a label for the mapping, predict
\* returns one of the two fixed strings, the legitimate one exactly when the
\* label is 0 and the fraudulent one otherwise; where the model call raises,
\* predict raises and returns nothing
C15_LabelOfModelOutput ==
    PredictCalled =>
        IF Raises(ModelOutcome)
        THEN Raises(servReturn) /\ "value" \notin DOMAIN servReturn
        ELSE /\ ~Raises(servReturn)
             /\ servReturn.value \in { Legitimate, Fraudulent }
             /\ servReturn.value = Legitimate <=> ModelOutcome.value[1] = 0
             /\ servReturn.value = Fraudulent <=> ModelOutcome.value[1] # 0

\* predict has answered a model output of 1 with the fraudulent string, for
\* a model that answers the other mapping differently
C15_Witness ==
    /\ PredictCalled
    /\ ModelOutcome = Returns(<< 1 >>)
    /\ servReturn = Returns(Fraudulent)
    /\ \E d \in FeatureMappings : loaded.value.predict[d] # ModelOutcome

\* a request to POST /predict whose body the schema accepted
ValidPost == servCall # Unset /\ servCall.fn = "POST /predict" /\ servCall.body.valid

\* what the loaded model's predict did with the features of that body
PostedOutcome == loaded.value.predict[servCall.body.features]

\* C16: a request to POST /predict whose body passes the schema is answered
\* with status 200 and a body of one key, result or error: result, holding
\* the prediction string, when the inference returned, and error when it
\* raised, so that no exception of the inference leaves the endpoint
C16_ResultOrErrorWith200 ==
    ValidPost =>
        /\ ~Raises(servReturn)
        /\ servReturn.status = 200
        /\ servReturn.key \in { "result", "error" }
        /\ servReturn.key = "error" <=> Raises(PostedOutcome)
        /\ servReturn.key = "result" =>
               servReturn.content =
                   (IF PostedOutcome.value[1] = 0 THEN Legitimate ELSE Fraudulent)

\* the model raised on the features of an accepted body and the endpoint
\* answered 200 with the error key and the message of predict's exception
C16_Witness ==
    /\ ValidPost
    /\ Raises(PostedOutcome)
    /\ servReturn = Response(200, "error", << "Error making prediction: ", "ValueError" >>)

\* the order of the module docstring: Docker, exported, artifacts, MLflow
LoadingPriority == << docker_path, exported_path, artifacts_path, mlflow_path >>

\* C17: the model of the imported module comes from the first location of
\* the order Docker, exported, artifacts, MLflow that exists, its type is
\* mlflow exactly when that is the MLflow directory and joblib otherwise,
\* and the import ends with FileNotFoundError exactly when none exists
C17_FirstExistingLocation ==
    loaded # Unset =>
        /\ Raises(loaded) <=> exists \cap ModelLocations = {}
        /\ Raises(loaded) => loaded.raised = "FileNotFoundError"
        /\ ~Raises(loaded) =>
               \E k \in 1..Len(LoadingPriority) :
                   /\ loaded.value.model_path = LoadingPriority[k]
                   /\ LoadingPriority[k] \in exists
                   /\ \A j \in 1..(k - 1) : LoadingPriority[j] \notin exists
                   /\ loaded.value.model_type = (IF k = 4 THEN "mlflow" ELSE "joblib")
                   /\ loaded.value.predict = stored[LoadingPriority[k]]

\* with every location but the Docker one present, the exported model was
\* loaded, and it is not the model of the artifacts directory
C17_Witness ==
    /\ loaded # Unset
    /\ exists = { exported_path, artifacts_path, mlflow_path }
    /\ loaded.value.model_path = exported_path
    /\ loaded.value.model_type = "joblib"
    /\ stored[artifacts_path] # loaded.value.predict

\* ------------------------------------------------------------------------
\* Properties of the search
\* ------------------------------------------------------------------------
\* C18: while trials of the budget remain, no error ends tune_model: a
\* trial whose cross-validation raises is recorded as a failed candidate
\* and the study goes on to the next trial
C18_TrialFailureNeverAborts ==
    (pc = "study_optimize" /\ Len(study) < MaxTrials) => raised = "None"

\* ------------------------------------------------------------------------
\* Properties of the reference sets and of the claim table
\* ------------------------------------------------------------------------
TopCodeFileNames ==
    { "top_diagnosis_code.csv", "top_attending_physician.csv", "top_operating_physician.csv" }

\* C21: generate_top_codes returns the three reference sets to main, so
\* that the run in which it has written its three files is not ended at
\* that step and goes on to create_claims_features
C21_TopCodesReachCaller ==
    (pc = "generate_top_codes" /\ TopCodeFileNames \subseteq DOMAIN files) => raised = "None"

\* the source flags of row i of the claim table
SourceFlags(i) == << claims.rows[i]["Is_Inpatient"], claims.rows[i]["Is_Outpatient"] >>

\* C22 as claimed: the table process_claims_data returns has the rows of
\* the inpatient table followed by those of the outpatient table, the first
\* flagged (True, False) and the second (False, True)
C22_ExactlyOneFlagTrue ==
    IsFrame(claims) =>
        /\ Len(claims.rows) = Len(inpatient.rows) + Len(outpatient.rows)
        /\ \A i \in 1..Len(claims.rows) :
              SourceFlags(i) = (IF i <= Len(inpatient.rows)
                                THEN << << TRUE >>, << FALSE >> >>
                                ELSE << << FALSE >>, << TRUE >> >>)

\* C22 as amended: the table has one row for each inpatient row and each
\* outpatient row; an inpatient row has Is_Inpatient True and Is_Outpatient
\* missing, an outpatient row Is_Outpatient True and Is_Inpatient missing
C22_SourceFlagTrueOtherMissing ==
    IsFrame(claims) =>
        /\ Len(claims.rows) = Len(inpatient.rows) + Len(outpatient.rows)
        /\ \A i \in 1..Len(claims.rows) :
              /\ SourceFlags(i) = (IF i <= Len(inpatient.rows)
                                   THEN << << TRUE >>, NA >>
                                   ELSE << NA, << TRUE >> >>)
              /\ claims.rows[i]["ClaimID"] =
                     (IF i <= Len(inpatient.rows)
                      THEN inpatient.rows[i]["ClaimID"]
                      ELSE outpatient.rows[i - Len(inpatient.rows)]["ClaimID"])

\* the claim table of two inpatient rows and one outpatient row
C22_Witness ==
    /\ IsFrame(claims)
    /\ Len(inpatient.rows) = 2
    /\ Len(outpatient.rows) = 1
    /\ Len(claims.rows) = 3
    /\ SourceFlags(2) = << << TRUE >>, NA >>
    /\ SourceFlags(3) = << NA, << TRUE >> >>

\* the raw value of a date column in the i-th row handed to
\* process_claims_data, the inpatient rows first; missing where the row's
\* table has no such column
RawDate(i, c) ==
    LET df == IF i <= Len(inpatient.rows) THEN inpatient ELSE outpatient
        k == IF i <= Len(inpatient.rows) THEN i ELSE i - Len(inpatient.rows)
    IN IF c \in df.columns THEN df.rows[k][c] ELSE NA

\* C23: process_claims_data, once called, returns a table, in which the
\* date fields that were missing or no date in the input are missing and
\* every other date field is the instant the input denotes
C23_BadDatesBecomeMissing ==
    "process_claims" \in Range(log) =>
        /\ raised = "None"
        /\ IsFrame(claims)
        /\ \A i \in 1..Len(claims.rows) : \A c \in Range(ClaimDateColumns) :
              IF isnull(RawDate(i, c)) \/ RawDate(i, c)[1] \notin DOMAIN DateTicks
              THEN isnull(claims.rows[i][c])
              ELSE claims.rows[i][c] = << DateTicks[RawDate(i, c)[1]] >>

\* the three files generate_top_codes wrote, each with the column it ranks
TopCodeSets ==
    { << tcFiles.top_diagnosis_code, "ClmAdmitDiagnosisCode" >>,
      << tcFiles.top_attending_physician, "AttendingPhysician" >>,
      << tcFiles.top_operating_physician, "OperatingPhysician" >> }

\* the claims of the table that hold the value in the column
ClaimsWith(col, v) == { i \in 1..Len(tcClaims.rows) : tcClaims.rows[i][col] = v }

\* the non-missing values of the column
ValuesOf(col) == Range(Column(tcClaims, col)) \ {NA}

\* C24: each of the three sets has no value twice, has as many values as
\* the column has distinct non-missing ones when these are fewer than 20
\* and 20 otherwise, and holds no value that occurs in fewer claims than
\* a value of the column left out of it
C24_TwentyMostFrequent ==
    tcFiles # Unset =>
        \A t \in TopCodeSets :
            LET kept == Range(t[1])
                col == t[2]
            IN /\ Cardinality(kept) = Len(t[1])
               /\ kept \subseteq ValuesOf(col)
               /\ Len(t[1]) = (IF Cardinality(ValuesOf(col)) < 20
                               THEN Cardinality(ValuesOf(col)) ELSE 20)
               /\ \A v \in kept : \A u \in ValuesOf(col) \ kept :
                      Cardinality(ClaimsWith(col, u)) <= Cardinality(ClaimsWith(col, v))

\* the table has 22 diagnosis codes, of which 20 are kept and two that
\* have a claim each are left out, and 3 operating physicians, all kept
C24_Witness ==
    /\ tcFiles # Unset
    /\ Cardinality(ValuesOf("ClmAdmitDiagnosisCode")) = 22
    /\ Len(tcFiles.top_diagnosis_code) = 20
    /\ Cardinality(ValuesOf("ClmAdmitDiagnosisCode") \ Range(tcFiles.top_diagnosis_code)) = 2
    /\ Cardinality(ValuesOf("OperatingPhysician")) = 3
    /\ Len(tcFiles.top_operating_physician) = 3

\* the first row of the table that holds the value in the column
FirstRow(col, v) == CHOOSE i \in ClaimsWith(col, v) : \A j \in ClaimsWith(col, v) : i <= j

\* C25: of the values that have as many claims as a value kept at the end
\* of a set, those kept come earlier in the table than those left out
C25_TiesKeepFirstEncountered ==
    tcFiles # Unset =>
        \A t \in TopCodeSets :
            \A v \in Range(t[1]) : \A u \in ValuesOf(t[2]) \ Range(t[1]) :
                Cardinality(ClaimsWith(t[2], u)) = Cardinality(ClaimsWith(t[2], v))
                    => FirstRow(t[2], v) < FirstRow(t[2], u)

\* ------------------------------------------------------------------------
\* Properties of the durations and of the source counts
\* ------------------------------------------------------------------------
\* the claim rows that lack the admission date or the discharge date
WithoutStay ==
    { i \in 1..Len(fClaims.rows) :
        isnull(fClaims.rows[i]["AdmissionDt"]) \/ isnull(fClaims.rows[i]["DischargeDt"]) }

\* the providers of the merged frame all of whose rows lack a hospital stay
OnlyWithoutStay ==
    { p \in Range(Column(fMerged, "Provider")) \ {NA} :
        \A i \in RowsOf(fMerged, p) : isnull(fMerged.rows[i]["hospital_stay_days"]) }

\* C26: a claim row without admission or discharge date has a missing
\* hospital_stay_days and a missing stay_vs_claim_diff after
\* create_claims_features, and a provider that has only such rows gets the
\* mean and the maximum of hospital_stay_days 0 and the mean of
\* stay_vs_claim_diff 0 from aggregate_claims_features
C26_NoStayCountsAsZero ==
    /\ IsFrame(fFeatured) =>
          \A i \in WithoutStay :
              /\ isnull(fFeatured.rows[i]["hospital_stay_days"])
              /\ isnull(fFeatured.rows[i]["stay_vs_claim_diff"])
    /\ (IsFrame(fMerged) /\ IsFrame(fFeatures)) =>
          \A p \in OnlyWithoutStay :
              \E i \in 1..Len(fFeatures.rows) :
                  LET r == fFeatures.rows[i]
                  IN /\ r["Provider"] = p
                     /\ notna(r["mean_hospital_stay_days"])
                     /\ notna(r["mean_difference_stay_vs_claim"])
                     /\ r["mean_hospital_stay_days"][1].num = 0
                     /\ r["mean_hospital_stay_days"][1].den > 0
                     /\ r["max_hospital_stay_days"] = << 0 >>
                     /\ r["mean_difference_stay_vs_claim"][1].num = 0
                     /\ r["mean_difference_stay_vs_claim"][1].den > 0

\* provider P2 has the outpatient claim only, and its three aggregates are 0
C26_Witness ==
    /\ IsFrame(fMerged)
    /\ IsFrame(fFeatures)
    /\ << "P2" >> \in OnlyWithoutStay
    /\ \E i \in RowsOf(fMerged, << "P2" >>) : fMerged.rows[i]["Is_Outpatient"] = << TRUE >>
    /\ \E i \in 1..Len(fFeatures.rows) :
          /\ fFeatures.rows[i]["Provider"] = << "P2" >>
          /\ fFeatures.rows[i]["max_hospital_stay_days"] = << 0 >>

\* C29: when no claim row has a missing claim id, every provider row of
\* the aggregated features has a count_inpatient and a count_outpatient
\* that add up to its count_unique_claims
C29_SourceCountsAddUp ==
    (IsFrame(fMerged) /\ IsFrame(fFeatures)
        /\ \A i \in 1..Len(fMerged.rows) : notna(fMerged.rows[i]["ClaimID"])) =>
        \A i \in 1..Len(fFeatures.rows) :
            LET r == fFeatures.rows[i]
            IN /\ r["count_inpatient"][1] + r["count_outpatient"][1] = r["count_unique_claims"][1]
               /\ r["count_unique_claims"][1] = Cardinality(RowsOf(fMerged, r["Provider"]))

\* a provider with an inpatient claim and an outpatient claim: one of
\* each, two claims
C29_Witness ==
    /\ IsFrame(fFeatures)
    /\ \E i \in 1..Len(fFeatures.rows) :
          /\ fFeatures.rows[i]["count_inpatient"] = << 1 >>
          /\ fFeatures.rows[i]["count_outpatient"] = << 1 >>
          /\ fFeatures.rows[i]["count_unique_claims"] = << 2 >>

\* ------------------------------------------------------------------------
\* Properties of train_model
\* ------------------------------------------------------------------------
\* C27: the classifier of the pipeline train_model returns has the
\* scale_pos_weight that is the integer nearest to the quotient of the 0
\* labels by the 1 labels of the split train_model made itself, the even
\* one when the quotient lies halfway, whatever scale_pos_weight xgb_params
\* holds, and has every other key of xgb_params with the value given there
C27_WeightRecomputedOthersOverride ==
    (trainReturn # Unset /\ ~Raises(trainReturn)) =>
        LET m == trainReturn.value
            weight == m.params["scale_pos_weight"]
            twice == 2 * (m.fitted_on.zeros - weight * m.fitted_on.ones)
        IN /\ m.fitted_on \in train_test_split(trainCall.labels)
           /\ m.fitted_on.ones > 0
           /\ twice <= m.fitted_on.ones
           /\ -twice <= m.fitted_on.ones
           /\ (twice = m.fitted_on.ones \/ -twice = m.fitted_on.ones) => weight % 2 = 0
           /\ trainCall.xgb_params # NoParams =>
                  \A k \in DOMAIN trainCall.xgb_params \ {"scale_pos_weight"} :
                      m.params[k] = trainCall.xgb_params[k]

\* train_model was given a scale_pos_weight of 99 and an eval_metric of
\* logloss, split off 5 zeros and 2 ones, and built its classifier with a
\* weight of 2 and with logloss
C27_Witness ==
    /\ trainReturn # Unset
    /\ ~Raises(trainReturn)
    /\ {"scale_pos_weight", "eval_metric"} \subseteq DOMAIN trainCall.xgb_params
    /\ trainCall.xgb_params["scale_pos_weight"] = 99
    /\ trainCall.xgb_params["eval_metric"] = "logloss"
    /\ trainReturn.value.fitted_on = Labels(5, 2)
    /\ trainReturn.value.params["scale_pos_weight"] = 2
    /\ trainReturn.value.params["eval_metric"] = "logloss"


\* ------------------------------------------------------------------------
\* Properties of validate_inference_data
\* ------------------------------------------------------------------------
\* the required feature columns of the table in which some row is null
NullRequiredFeatures ==
    { c \in Range(InferenceRequired) \cap valCall.df.columns :
        \E i \in 1..Len(valCall.df.rows) : isnull(valCall.df.rows[i][c]) }

\* C28: validate_inference_data, called on a table with a null in one of
\* its required feature columns, reports the no_nulls check as failed, in
\* a report whose success is false or in the ValueError it raises
C28_NullFeatureFailsValidation ==
    (valCall # Unset /\ valCall.fn = "validate_inference_data" /\ valReturn # Unset
        /\ NullRequiredFeatures # {}) =>
        IF valReturn.kind = "ValueError"
        THEN << "no_nulls", "features" >> \in Range(valReturn.failed_msgs)
        ELSE /\ ~valReturn.success
             /\ \E t \in Range(valReturn.failed_tests) : t.test = "no_nulls"


\* ------------------------------------------------------------------------
\* Properties of export_model
\* ------------------------------------------------------------------------
\* C30: when export_model ends with FileNotFoundError, an export directory
\* that an earlier run had left is as it was
C30_FailedExportKeepsEarlier ==
    (expReturn # Unset /\ Raises(expReturn) /\ expBefore.present) =>
        /\ expReturn.raised = "FileNotFoundError"
        /\ expDir = expBefore

====
